---- MODULE Spec2Model ----
(***************************************************************************)
(* Load generator of the database-problems demo                            *)
(* (DBProblemsDemoPython/load-generator/load_generator.py).                *)
(*                                                                         *)
(* The shared statistics store `stats` is a module-level dict that every   *)
(* session thread updates inside make_request without any lock.  Each      *)
(* statement of make_request that reads and then writes the store is       *)
(* modelled as two steps (a load into the thread's frame, then a store),   *)
(* the granularity at which the interpreter may switch threads.  list      *)
(* append is a single step.  One thread runs at a time (the interpreter    *)
(* lock, `gil`); a switch away from a session that is between two accesses *)
(* to the store is a preemption, and a run has at most MaxPreempt of them. *)
(* Durations and timestamps are integers.                                  *)
(***************************************************************************)
EXTENDS Integers, Sequences, FiniteSets, TLC

\* ------------------------------------------------------------------ bounds
\* calls of make_request started in a run of the concurrent specification
MaxCalls == 2
\* calls of make_request started in a run of the one-at-a-time specification
MaxSeqCalls == 2
\* thread switches that interrupt a make_request call in a run
MaxPreempt == 2
\* measured durations are 1..MaxDuration
MaxDuration == 2
\* response times of a store handed to print_stats and generate_report
MaxSamples == 11
\* the longest args.duration, in seconds
MaxArgDuration == 4
\* calls of make_request behind a store that is written to stats.json
MaxDumpCalls == 2

\* the matching rows of the table efficient_bulk_query reads
MaxRows == 3
\* the largest limit given to efficient_bulk_query
MaxLimit == 4
\* the largest batch_size given to efficient_bulk_query
MaxBatch == 2
\* the queries one call of efficient_bulk_query is followed for
MaxQueries == 5

\* ------------------------------------------------------- program constants
\* float('inf'), the initial stats["min_time"]
INF == 1000

\* the session threads of the ThreadPoolExecutor (args.users of them)
Sessions == {"user0", "user1"}

\* the make_request call sites of user_session: endpoint and method
CallSites ==
    { [endpoint |-> "/api/users", method |-> "GET"],
      [endpoint |-> "/health",    method |-> "GET"] }

\* make_request called with a method that is neither GET nor POST
AnyCallSites == CallSites \cup { [endpoint |-> "/api/users", method |-> "PUT"] }

\* the slice bound of response.text[:200] (line 99)
MessageLimit == 200

\* len(response.text) and len(str(e)): a text is modelled by its length
TextLens == {10, 250}

\* text[:n] of a text of length len
Slice(len, n) == IF len <= n THEN len ELSE n

\* response.status_code of the target service
Statuses == {200, 500}

Durations == 1..MaxDuration

VARIABLES
    stats,      \* the global dict stats
    heap,       \* the per-endpoint dicts created at line 76, by identity
    pc,         \* per session: position inside make_request, or "idle"
    frame,      \* per session: the locals of its make_request call
    ret,        \* per session: what its last make_request call returned
    clock,      \* time.time(), counted in completed HTTP calls
    outcome,    \* history, per session: how the HTTP call of its last call ended
    calls,      \* history: what the calls made so far really did
    printed,    \* what the last print_stats of stats_reporter printed
    gil,        \* the thread that ran last (holder of the interpreter lock)
    preempts,   \* history: preemptions so far
    report,     \* what generate_report did: the text report and the graphs
    running,    \* the global flag running
    session,    \* per session: position and locals of its user_session call
    main,       \* position and locals of main
    file,       \* the content of stats.json
    cli,        \* logzio-api: one invocation of a command of commands.py
    bulk,       \* backend: one call of efficient_bulk_query
    dl          \* backend: one call of simulate_deadlock and its two threads

\* the state of user_session and main
control == <<running, session, main, file>>

\* the state of the programs other than the load generator
apps == <<cli, bulk, dl>>

\* the state outside make_request and stats_reporter
others == <<report, control, apps>>

\* the state of the load generator
loadgen == <<stats, heap, pc, frame, ret, clock, outcome, calls, printed, gil, preempts,
             report, control>>

vars == <<stats, heap, pc, frame, ret, clock, outcome, calls, printed, gil, preempts,
          others>>

\* time.sleep(1) of deadlock_transaction_1 and deadlock_transaction_2
SetupDelay == 1
\* the timeout of t1.join and t2.join in simulate_deadlock
JoinTimeout == 10

\* ----------------------------------------------------------------- helpers
EmptyMap == [k \in {} |-> 0]

\* d[k] = v, creating the key when it is missing (dict item assignment)
SetItem(d, k, v) == [x \in DOMAIN d \cup {k} |-> IF x = k THEN v ELSE d[x]]

Digit(d) ==
    CASE d = 0 -> "0" [] d = 1 -> "1" [] d = 2 -> "2" [] d = 3 -> "3"
      [] d = 4 -> "4" [] d = 5 -> "5" [] d = 6 -> "6" [] d = 7 -> "7"
      [] d = 8 -> "8" [] d = 9 -> "9"

\* str(response.status_code)
RECURSIVE Str(_)
Str(n) == IF n < 10 THEN Digit(n) ELSE Str(n \div 10) \o Digit(n % 10)

Min2(a, b) == IF a <= b THEN a ELSE b
Max2(a, b) == IF a >= b THEN a ELSE b

\* the locals of a make_request call before it has assigned any
NoFrame ==
    [endpoint |-> "", method |-> "", status_code |-> 0, duration |-> 0,
     timestamp |-> 0, tmp |-> 0, ref |-> 0]

\* the dict literal of lines 76-81
NewEndpointStats == [requests |-> 0, errors |-> 0, total_time |-> 0, times |-> <<>>]

\* the module-level dict of lines 31-42
InitStats ==
    [requests |-> 0, errors |-> 0, total_time |-> 0, min_time |-> INF,
     max_time |-> 0, response_times |-> <<>>, timestamps |-> <<>>,
     endpoints |-> EmptyMap, status_codes |-> EmptyMap, errors_detail |-> <<>>]

\* no generate_report call yet
NoReport ==
    [runs |-> 0, written |-> FALSE, requests |-> 0, errors |-> 0,
     percentiles |-> <<>>, graphs |-> {}, error_entries |-> 0]

\* user_session not called
NoSession ==
    [line |-> "none", duration |-> 0, start |-> 0, end_time |-> 0,
     problems |-> "None", wake |-> 0, sent |-> 0, iterations |-> 0,
     last_iteration |-> 0, exceptions |-> 0, returned_at |-> 0,
     users_calls |-> 0, fetches |-> 0]

\* main not called
NoMain ==
    [line |-> "none", report_only |-> FALSE, duration |-> 0, future |-> 0,
     wake |-> 0, timed_out |-> {}, reporter |-> FALSE, interrupts |-> 0,
     message |-> "", reporter_line |-> "none", reporter_wake |-> 0, reports |-> 0]

\* no file stats.json
NoFile == [exists |-> FALSE]

\* no command of the logzio-api client has been invoked
NoCli == [line |-> "none", exit_code |-> -1]

\* efficient_bulk_query has not been called
NoBulk == [line |-> "none", rows |-> 0, limit_given |-> FALSE, limit |-> 0,
           batch_size |-> 1, results |-> <<>>, processed |-> 0, offset |-> 0,
           queries |-> 0]

\* simulate_deadlock has not been called
NoDeadlock == [line |-> "none",
               thread |-> [t \in {"t1", "t2"} |->
                              [line |-> "unstarted", wake |-> 0, deadlocked |-> FALSE]],
               ready |-> [t \in {"t1", "t2"} |-> FALSE],
               locks |-> [table \in {"users", "products"} |-> "free"],
               now |-> 0,
               join_start |-> 0,
               waited |-> [t \in {"t1", "t2"} |-> 0]]

\* the other programs have not been started
AppsIdle ==
    /\ cli = NoCli
    /\ bulk = NoBulk
    /\ dl = NoDeadlock

\* everything but the store, as the module leaves it after import
InitRest ==
    /\ report = NoReport
    /\ running = TRUE
    /\ session = [t \in Sessions |-> NoSession]
    /\ main = NoMain
    /\ file = NoFile
    /\ AppsIdle

\* the store and the session threads before the first call of make_request
InitStore ==
    /\ stats = InitStats
    /\ heap = <<>>
    /\ pc = [t \in Sessions |-> "idle"]
    /\ frame = [t \in Sessions |-> NoFrame]
    /\ ret = [t \in Sessions |-> [value |-> "no call yet", status_code |-> 0]]
    /\ outcome = [t \in Sessions |-> "no call yet"]
    /\ clock = 0
    /\ calls = [started |-> 0, responded |-> 0, http_errors |-> 0,
                faults |-> 0, unsupported |-> 0, returned |-> 0]
    /\ printed = [requests |-> 0, errors |-> 0, samples |-> 0, percentiles |-> <<>>]
    /\ gil = "main"
    /\ preempts = 0

Init ==
    /\ InitStore
    /\ InitRest

Goto(t, label) == pc' = [pc EXCEPT ![t] = label]
At(t, label) == pc[t] = label
SetFrame(t, f) == frame' = [frame EXCEPT ![t] = f]

Quiescent == \A t \in Sessions : pc[t] = "idle"

\* a thread that has released the interpreter lock or touches no shared state:
\* main (time.sleep, line 366), stats_reporter (time.sleep, line 208), a
\* session outside make_request or waiting for its HTTP response (lines 57/59)
Blocked(g) == g \notin Sessions \/ pc[g] \in {"idle", "L54"}

\* thread t runs next
Schedule(t) ==
    /\ gil' = t
    /\ IF gil = t \/ Blocked(gil)
          THEN preempts' = preempts
          ELSE preempts < MaxPreempt /\ preempts' = preempts + 1

\* a value of stats["errors_detail"][i]["status_code"]: an int or a str
PyInt(n) == [type |-> "int", val |-> Str(n)]
PyStr(s) == [type |-> "str", val |-> s]

\* -------------------------------------------------- make_request, try body
\* lines 47-51: user_session calls make_request at one of its call sites
make_request(t, site) ==
    /\ At(t, "idle")
    /\ Schedule(t)
    /\ SetFrame(t, [NoFrame EXCEPT !.endpoint = site.endpoint, !.method = site.method])
    /\ Goto(t, "L54")
    /\ calls' = [calls EXCEPT !.started = @ + 1]
    /\ UNCHANGED <<stats, heap, ret, clock, printed, outcome, others>>

\* lines 54-64: session.get / session.post returned a response
http_response(t) ==
    /\ At(t, "L54")
    /\ Schedule(t)
    /\ frame[t].method \in {"GET", "POST"}
    /\ \E s \in Statuses, d \in Durations :
          /\ SetFrame(t, [frame[t] EXCEPT !.status_code = s, !.duration = d,
                                          !.timestamp = clock])
          /\ calls' = [calls EXCEPT !.responded = @ + 1,
                                    !.http_errors = IF s >= 400 THEN @ + 1 ELSE @]
    /\ clock' = clock + 1
    /\ outcome' = [outcome EXCEPT ![t] = "response"]
    /\ Goto(t, "L67")
    /\ UNCHANGED <<stats, heap, ret, printed, others>>

\* a make_request without the except clause of line 105: the fault reaches
\* user_session and nothing is recorded
http_fault_propagates(t) ==
    /\ At(t, "L54")
    /\ Schedule(t)
    /\ frame[t].method \in {"GET", "POST"}
    /\ calls' = [calls EXCEPT !.faults = @ + 1, !.returned = @ + 1]
    /\ clock' = clock + 1
    /\ outcome' = [outcome EXCEPT ![t] = "fault"]
    /\ ret' = [ret EXCEPT ![t] = [value |-> "raised", status_code |-> 0]]
    /\ SetFrame(t, NoFrame)
    /\ Goto(t, "idle")
    /\ UNCHANGED <<stats, heap, printed, others>>

\* lines 57/59 raise (refused connection, timeout, DNS): control goes to line 105
http_fault(t) ==
    /\ At(t, "L54")
    /\ Schedule(t)
    /\ frame[t].method \in {"GET", "POST"}
    /\ calls' = [calls EXCEPT !.faults = @ + 1]
    /\ clock' = clock + 1
    /\ outcome' = [outcome EXCEPT ![t] = "fault"]
    /\ Goto(t, "L106")
    /\ UNCHANGED <<stats, heap, frame, ret, printed, others>>

\* lines 60-61: raise ValueError(f"Unsupported method: {method}") inside the
\* try block: no request is sent and control goes to line 105
unsupported_method(t) ==
    /\ At(t, "L54")
    /\ Schedule(t)
    /\ frame[t].method \notin {"GET", "POST"}
    /\ calls' = [calls EXCEPT !.unsupported = @ + 1]
    /\ outcome' = [outcome EXCEPT ![t] = "unsupported"]
    /\ Goto(t, "L106")
    /\ UNCHANGED <<stats, heap, frame, ret, clock, printed, others>>

\* line 67: stats["requests"] += 1
L67_load(t) ==
    /\ At(t, "L67")
    /\ Schedule(t)
    /\ SetFrame(t, [frame[t] EXCEPT !.tmp = stats.requests])
    /\ Goto(t, "L67s")
    /\ UNCHANGED <<stats, heap, ret, clock, calls, printed, outcome, others>>

L67_store(t) ==
    /\ At(t, "L67s")
    /\ Schedule(t)
    /\ stats' = [stats EXCEPT !.requests = frame[t].tmp + 1]
    /\ Goto(t, "L68")
    /\ UNCHANGED <<heap, frame, ret, clock, calls, printed, outcome, others>>

\* line 68: stats["total_time"] += duration
L68_load(t) ==
    /\ At(t, "L68")
    /\ Schedule(t)
    /\ SetFrame(t, [frame[t] EXCEPT !.tmp = stats.total_time])
    /\ Goto(t, "L68s")
    /\ UNCHANGED <<stats, heap, ret, clock, calls, printed, outcome, others>>

L68_store(t) ==
    /\ At(t, "L68s")
    /\ Schedule(t)
    /\ stats' = [stats EXCEPT !.total_time = frame[t].tmp + frame[t].duration]
    /\ Goto(t, "L69")
    /\ UNCHANGED <<heap, frame, ret, clock, calls, printed, outcome, others>>

\* line 69: the condition stats["min_time"] != float('inf')
L69_test(t) ==
    /\ At(t, "L69")
    /\ Schedule(t)
    /\ IF stats.min_time # INF
          THEN /\ Goto(t, "L69m")
               /\ UNCHANGED frame
          ELSE /\ SetFrame(t, [frame[t] EXCEPT !.tmp = frame[t].duration])
               /\ Goto(t, "L69s")
    /\ UNCHANGED <<stats, heap, ret, clock, calls, printed, outcome, others>>

\* line 69: min(stats["min_time"], duration)
L69_min(t) ==
    /\ At(t, "L69m")
    /\ Schedule(t)
    /\ SetFrame(t, [frame[t] EXCEPT !.tmp = Min2(stats.min_time, frame[t].duration)])
    /\ Goto(t, "L69s")
    /\ UNCHANGED <<stats, heap, ret, clock, calls, printed, outcome, others>>

\* line 69: stats["min_time"] = ...
L69_store(t) ==
    /\ At(t, "L69s")
    /\ Schedule(t)
    /\ stats' = [stats EXCEPT !.min_time = frame[t].tmp]
    /\ Goto(t, "L70")
    /\ UNCHANGED <<heap, frame, ret, clock, calls, printed, outcome, others>>

\* line 70: max(stats["max_time"], duration)
L70_max(t) ==
    /\ At(t, "L70")
    /\ Schedule(t)
    /\ SetFrame(t, [frame[t] EXCEPT !.tmp = Max2(stats.max_time, frame[t].duration)])
    /\ Goto(t, "L70s")
    /\ UNCHANGED <<stats, heap, ret, clock, calls, printed, outcome, others>>

L70_store(t) ==
    /\ At(t, "L70s")
    /\ Schedule(t)
    /\ stats' = [stats EXCEPT !.max_time = frame[t].tmp]
    /\ Goto(t, "L71")
    /\ UNCHANGED <<heap, frame, ret, clock, calls, printed, outcome, others>>

\* line 71: stats["response_times"].append(duration)
L71_append(t) ==
    /\ At(t, "L71")
    /\ Schedule(t)
    /\ stats' = [stats EXCEPT !.response_times = Append(@, frame[t].duration)]
    /\ Goto(t, "L72")
    /\ UNCHANGED <<heap, frame, ret, clock, calls, printed, outcome, others>>

\* line 72 left out: the timestamp is not recorded
L72_skipped(t) ==
    /\ At(t, "L72")
    /\ Schedule(t)
    /\ Goto(t, "L75")
    /\ UNCHANGED <<stats, heap, frame, ret, clock, calls, printed, outcome, others>>

\* line 72: stats["timestamps"].append(timestamp)
L72_append(t) ==
    /\ At(t, "L72")
    /\ Schedule(t)
    /\ stats' = [stats EXCEPT !.timestamps = Append(@, frame[t].timestamp)]
    /\ Goto(t, "L75")
    /\ UNCHANGED <<heap, frame, ret, clock, calls, printed, outcome, others>>

\* line 75: if endpoint not in stats["endpoints"]
L75_test(t) ==
    /\ At(t, "L75")
    /\ Schedule(t)
    /\ IF frame[t].endpoint \notin DOMAIN stats.endpoints
          THEN Goto(t, "L76")
          ELSE Goto(t, "L82")
    /\ UNCHANGED <<stats, heap, frame, ret, clock, calls, printed, outcome, others>>

\* lines 76-81: stats["endpoints"][endpoint] = {a new dict}
L76_create(t) ==
    /\ At(t, "L76")
    /\ Schedule(t)
    /\ heap' = Append(heap, NewEndpointStats)
    /\ stats' = [stats EXCEPT !.endpoints = SetItem(@, frame[t].endpoint, Len(heap) + 1)]
    /\ Goto(t, "L82")
    /\ UNCHANGED <<frame, ret, clock, calls, printed, outcome, others>>

\* line 82: stats["endpoints"][endpoint]["requests"] += 1
\* the load keeps the dict it found (ref); the store goes to that dict
L82_load(t) ==
    /\ At(t, "L82")
    /\ Schedule(t)
    /\ LET r == stats.endpoints[frame[t].endpoint]
       IN  SetFrame(t, [frame[t] EXCEPT !.ref = r, !.tmp = heap[r].requests])
    /\ Goto(t, "L82s")
    /\ UNCHANGED <<stats, heap, ret, clock, calls, printed, outcome, others>>

L82_store(t) ==
    /\ At(t, "L82s")
    /\ Schedule(t)
    /\ heap' = [heap EXCEPT ![frame[t].ref].requests = frame[t].tmp + 1]
    /\ Goto(t, "L83")
    /\ UNCHANGED <<stats, frame, ret, clock, calls, printed, outcome, others>>

\* line 83: stats["endpoints"][endpoint]["total_time"] += duration
L83_load(t) ==
    /\ At(t, "L83")
    /\ Schedule(t)
    /\ LET r == stats.endpoints[frame[t].endpoint]
       IN  SetFrame(t, [frame[t] EXCEPT !.ref = r, !.tmp = heap[r].total_time])
    /\ Goto(t, "L83s")
    /\ UNCHANGED <<stats, heap, ret, clock, calls, printed, outcome, others>>

L83_store(t) ==
    /\ At(t, "L83s")
    /\ Schedule(t)
    /\ heap' = [heap EXCEPT ![frame[t].ref].total_time = frame[t].tmp + frame[t].duration]
    /\ Goto(t, "L84")
    /\ UNCHANGED <<stats, frame, ret, clock, calls, printed, outcome, others>>

\* line 84: stats["endpoints"][endpoint]["times"].append(duration)
L84_append(t) ==
    /\ At(t, "L84")
    /\ Schedule(t)
    /\ heap' = [heap EXCEPT ![stats.endpoints[frame[t].endpoint]].times =
                                Append(@, frame[t].duration)]
    /\ Goto(t, "L87")
    /\ UNCHANGED <<stats, frame, ret, clock, calls, printed, outcome, others>>

\* lines 87-88: status_code = str(response.status_code); if it is no key yet
L88_test(t) ==
    /\ At(t, "L87")
    /\ Schedule(t)
    /\ IF Str(frame[t].status_code) \notin DOMAIN stats.status_codes
          THEN Goto(t, "L89")
          ELSE Goto(t, "L90")
    /\ UNCHANGED <<stats, heap, frame, ret, clock, calls, printed, outcome, others>>

\* line 89: stats["status_codes"][status_code] = 0
L89_create(t) ==
    /\ At(t, "L89")
    /\ Schedule(t)
    /\ stats' = [stats EXCEPT !.status_codes = SetItem(@, Str(frame[t].status_code), 0)]
    /\ Goto(t, "L90")
    /\ UNCHANGED <<heap, frame, ret, clock, calls, printed, outcome, others>>

\* line 90: stats["status_codes"][status_code] += 1
L90_load(t) ==
    /\ At(t, "L90")
    /\ Schedule(t)
    /\ SetFrame(t, [frame[t] EXCEPT !.tmp = stats.status_codes[Str(frame[t].status_code)]])
    /\ Goto(t, "L90s")
    /\ UNCHANGED <<stats, heap, ret, clock, calls, printed, outcome, others>>

L90_store(t) ==
    /\ At(t, "L90s")
    /\ Schedule(t)
    /\ stats' = [stats EXCEPT !.status_codes =
                    SetItem(@, Str(frame[t].status_code), frame[t].tmp + 1)]
    /\ Goto(t, "L92")
    /\ UNCHANGED <<heap, frame, ret, clock, calls, printed, outcome, others>>

\* line 92: if response.status_code >= 400
L92_test(t) ==
    /\ At(t, "L92")
    /\ Schedule(t)
    /\ IF frame[t].status_code >= 400
          THEN Goto(t, "L93")
          ELSE Goto(t, "L103")
    /\ UNCHANGED <<stats, heap, frame, ret, clock, calls, printed, outcome, others>>

\* line 93: stats["errors"] += 1
L93_load(t) ==
    /\ At(t, "L93")
    /\ Schedule(t)
    /\ SetFrame(t, [frame[t] EXCEPT !.tmp = stats.errors])
    /\ Goto(t, "L93s")
    /\ UNCHANGED <<stats, heap, ret, clock, calls, printed, outcome, others>>

L93_store(t) ==
    /\ At(t, "L93s")
    /\ Schedule(t)
    /\ stats' = [stats EXCEPT !.errors = frame[t].tmp + 1]
    /\ Goto(t, "L94")
    /\ UNCHANGED <<heap, frame, ret, clock, calls, printed, outcome, others>>

\* line 94: stats["endpoints"][endpoint]["errors"] += 1
L94_load(t) ==
    /\ At(t, "L94")
    /\ Schedule(t)
    /\ LET r == stats.endpoints[frame[t].endpoint]
       IN  SetFrame(t, [frame[t] EXCEPT !.ref = r, !.tmp = heap[r].errors])
    /\ Goto(t, "L94s")
    /\ UNCHANGED <<stats, heap, ret, clock, calls, printed, outcome, others>>

L94_store(t) ==
    /\ At(t, "L94s")
    /\ Schedule(t)
    /\ heap' = [heap EXCEPT ![frame[t].ref].errors = frame[t].tmp + 1]
    /\ Goto(t, "L95")
    /\ UNCHANGED <<stats, frame, ret, clock, calls, printed, outcome, others>>

\* lines 95-101: stats["errors_detail"].append({...}); print
L95_append(t) ==
    /\ At(t, "L95")
    /\ Schedule(t)
    /\ \E text \in TextLens :
          stats' = [stats EXCEPT !.errors_detail =
                       Append(@, [timestamp |-> frame[t].timestamp,
                                  endpoint |-> frame[t].endpoint,
                                  status_code |-> PyInt(frame[t].status_code),
                                  message |-> Slice(text, MessageLimit)])]
    /\ Goto(t, "L103")
    /\ UNCHANGED <<heap, frame, ret, clock, calls, printed, outcome, others>>

\* line 103: return response
L103_return(t) ==
    /\ At(t, "L103")
    /\ Schedule(t)
    /\ ret' = [ret EXCEPT ![t] = [value |-> "response",
                                  status_code |-> frame[t].status_code]]
    /\ SetFrame(t, NoFrame)
    /\ Goto(t, "idle")
    /\ calls' = [calls EXCEPT !.returned = @ + 1]
    /\ UNCHANGED <<stats, heap, clock, printed, outcome, others>>

\* ------------------------------------------ make_request, except Exception
\* line 106: stats["errors"] += 1
L106_load(t) ==
    /\ At(t, "L106")
    /\ Schedule(t)
    /\ SetFrame(t, [frame[t] EXCEPT !.tmp = stats.errors])
    /\ Goto(t, "L106s")
    /\ UNCHANGED <<stats, heap, ret, clock, calls, printed, outcome, others>>

\* line 106 writing back the value it read: a fault is not counted
L106_store_same(t) ==
    /\ At(t, "L106s")
    /\ Schedule(t)
    /\ stats' = [stats EXCEPT !.errors = frame[t].tmp]
    /\ Goto(t, "L107")
    /\ UNCHANGED <<heap, frame, ret, clock, calls, printed, outcome, others>>

L106_store(t) ==
    /\ At(t, "L106s")
    /\ Schedule(t)
    /\ stats' = [stats EXCEPT !.errors = frame[t].tmp + 1]
    /\ Goto(t, "L107")
    /\ UNCHANGED <<heap, frame, ret, clock, calls, printed, outcome, others>>

\* line 107: if endpoint in stats["endpoints"]
L107_test(t) ==
    /\ At(t, "L107")
    /\ Schedule(t)
    /\ IF frame[t].endpoint \in DOMAIN stats.endpoints
          THEN Goto(t, "L108")
          ELSE Goto(t, "L110")
    /\ UNCHANGED <<stats, heap, frame, ret, clock, calls, printed, outcome, others>>

\* line 108: stats["endpoints"][endpoint]["errors"] += 1
L108_load(t) ==
    /\ At(t, "L108")
    /\ Schedule(t)
    /\ LET r == stats.endpoints[frame[t].endpoint]
       IN  SetFrame(t, [frame[t] EXCEPT !.ref = r, !.tmp = heap[r].errors])
    /\ Goto(t, "L108s")
    /\ UNCHANGED <<stats, heap, ret, clock, calls, printed, outcome, others>>

L108_store(t) ==
    /\ At(t, "L108s")
    /\ Schedule(t)
    /\ heap' = [heap EXCEPT ![frame[t].ref].errors = frame[t].tmp + 1]
    /\ Goto(t, "L110")
    /\ UNCHANGED <<stats, frame, ret, clock, calls, printed, outcome, others>>

\* lines 110-118: stats["errors_detail"].append({... "Exception" ...}); print
L111_append(t) ==
    /\ At(t, "L110")
    /\ Schedule(t)
    /\ \E error_message \in TextLens :
          stats' = [stats EXCEPT !.errors_detail =
                       Append(@, [timestamp |-> clock,
                                  endpoint |-> frame[t].endpoint,
                                  status_code |-> PyStr("Exception"),
                                  message |-> error_message])]
    /\ Goto(t, "L119")
    /\ UNCHANGED <<heap, frame, ret, clock, calls, printed, outcome, others>>

\* line 119: return None
L119_return(t) ==
    /\ At(t, "L119")
    /\ Schedule(t)
    /\ ret' = [ret EXCEPT ![t] = [value |-> "None", status_code |-> 0]]
    /\ SetFrame(t, NoFrame)
    /\ Goto(t, "idle")
    /\ calls' = [calls EXCEPT !.returned = @ + 1]
    /\ UNCHANGED <<stats, heap, clock, printed, outcome, others>>

\* one step of a make_request call that is in flight
make_request_step(t) ==
    \/ http_response(t) \/ http_fault(t)
    \/ L67_load(t) \/ L67_store(t) \/ L68_load(t) \/ L68_store(t)
    \/ L69_test(t) \/ L69_min(t) \/ L69_store(t) \/ L70_max(t) \/ L70_store(t)
    \/ L71_append(t) \/ L72_append(t) \/ L75_test(t) \/ L76_create(t)
    \/ L82_load(t) \/ L82_store(t) \/ L83_load(t) \/ L83_store(t) \/ L84_append(t)
    \/ L88_test(t) \/ L89_create(t) \/ L90_load(t) \/ L90_store(t) \/ L92_test(t)
    \/ L93_load(t) \/ L93_store(t) \/ L94_load(t) \/ L94_store(t) \/ L95_append(t)
    \/ L103_return(t)
    \/ L106_load(t) \/ L106_store(t) \/ L107_test(t) \/ L108_load(t) \/ L108_store(t)
    \/ L111_append(t) \/ L119_return(t)

\* ------------------------------------- make_request run without interruption
\* lines 63-103 as one step: the store and the endpoint dicts after a call on
\* endpoint that got a response (status, duration d, time ts, text length text)
RecordResponse(st, hp, endpoint, status, d, ts, text) ==
    LET isnew == endpoint \notin DOMAIN st.endpoints
        eps == IF isnew THEN SetItem(st.endpoints, endpoint, Len(hp) + 1)
                        ELSE st.endpoints
        r == eps[endpoint]
        hp1 == IF isnew THEN Append(hp, NewEndpointStats) ELSE hp
        hp2 == [hp1 EXCEPT ![r].requests = @ + 1,
                           ![r].total_time = @ + d,
                           ![r].times = Append(@, d)]
        key == Str(status)
        old == IF key \in DOMAIN st.status_codes THEN st.status_codes[key] ELSE 0
        s1 == [st EXCEPT !.requests = @ + 1,
                         !.total_time = @ + d,
                         !.min_time = IF @ # INF THEN Min2(@, d) ELSE d,
                         !.max_time = Max2(@, d),
                         !.response_times = Append(@, d),
                         !.timestamps = Append(@, ts),
                         !.endpoints = eps,
                         !.status_codes = SetItem(@, key, old + 1)]
    IN  IF status >= 400
           THEN [stats |-> [s1 EXCEPT !.errors = @ + 1,
                                      !.errors_detail =
                                         Append(@, [timestamp |-> ts,
                                                    endpoint |-> endpoint,
                                                    status_code |-> PyInt(status),
                                                    message |-> Slice(text, MessageLimit)])],
                 heap |-> [hp2 EXCEPT ![r].errors = @ + 1]]
           ELSE [stats |-> s1, heap |-> hp2]

\* lines 105-119 as one step: the store after a call whose request raised
RecordFault(st, hp, endpoint, ts, error_message) ==
    [stats |-> [st EXCEPT !.errors = @ + 1,
                          !.errors_detail =
                             Append(@, [timestamp |-> ts,
                                        endpoint |-> endpoint,
                                        status_code |-> PyStr("Exception"),
                                        message |-> error_message])],
     heap |-> IF endpoint \in DOMAIN st.endpoints
                 THEN [hp EXCEPT ![st.endpoints[endpoint]].errors = @ + 1]
                 ELSE hp]

RECURSIVE SampleStore(_)
\* the store after Len(times) calls of make_request("/api/users") made one at a
\* time, each answered 200, the i-th after times[i]
SampleStore(times) ==
    IF times = <<>>
       THEN [stats |-> InitStats, heap |-> <<>>]
       ELSE LET before == SampleStore(SubSeq(times, 1, Len(times) - 1))
            IN  RecordResponse(before.stats, before.heap, "/api/users", 200,
                               times[Len(times)], Len(times) - 1, 0)

\* ------------------------------------------------- percentiles and reports
\* lines 182 and 284 without sorted(): the list in completion order
Unsorted(times) == times

\* sorted(stats["response_times"])
Sorted(times) == SortSeq(times, LAMBDA a, b : a < b)

\* line 183 with the index rounded up: (len + 1) // 2
P50_rounded_up(times) == Sorted(times)[((Len(times) + 1) \div 2) + 1]

\* lines 183-185 and 285-287: the 0-based indexes len // 2, int(len * 0.9) and
\* int(len * 0.99) into the sorted list (a TLA+ sequence is 1-based)
P50(times) == Sorted(times)[(Len(times) \div 2) + 1]
P90(times) == Sorted(times)[((Len(times) * 9) \div 10) + 1]
P99(times) == Sorted(times)[((Len(times) * 99) \div 100) + 1]

\* lines 181-189 and 283-291: the percentile section, <<>> when it is left out
Percentiles(times) ==
    IF Len(times) > 10
       THEN <<P50(times), P90(times), P99(times)>>
       ELSE <<>>

\* lines 226-264: the graphs saved
Graphs ==
    IF Len(stats.timestamps) > 0 /\ Len(stats.response_times) > 0
       THEN {"response_times", "histogram"}
            \cup (IF Len(stats.response_times) > 10 THEN {"smoothed"} ELSE {})
       ELSE {}

\* generate_report without the early return of lines 214-216
generate_report_always ==
    /\ report' = [runs |-> report.runs + 1,
                  written |-> TRUE,
                  requests |-> stats.requests,
                  errors |-> stats.errors,
                  percentiles |-> Percentiles(stats.response_times),
                  graphs |-> Graphs,
                  error_entries |-> Len(stats.errors_detail)]
    /\ UNCHANGED <<stats, heap, pc, frame, ret, clock, outcome, calls, printed,
                   gil, preempts, control, apps>>

\* lines 210-316
generate_report ==
    /\ IF stats.requests = 0
          THEN \* lines 214-216: print("No data to generate report"); return
               report' = [NoReport EXCEPT !.runs = report.runs + 1]
          ELSE report' = [runs |-> report.runs + 1,
                          written |-> TRUE,
                          requests |-> stats.requests,
                          errors |-> stats.errors,
                          percentiles |-> Percentiles(stats.response_times),
                          graphs |-> Graphs,
                          error_entries |-> Len(stats.errors_detail)]
    /\ UNCHANGED <<stats, heap, pc, frame, ret, clock, outcome, calls, printed,
                   gil, preempts, control, apps>>

\* ------------------------------------------------------------ stats_reporter
\* print_stats with stats["response_times"].sort() in place of sorted() at
\* line 182
print_stats_sorts_in_place ==
    /\ Schedule("stats_reporter")
    /\ stats.requests # 0
    /\ printed' = [requests |-> stats.requests, errors |-> stats.errors,
                   samples |-> Len(stats.response_times),
                   percentiles |-> Percentiles(stats.response_times)]
    /\ stats' = [stats EXCEPT !.response_times = Sorted(@)]
    /\ UNCHANGED <<heap, pc, frame, ret, clock, calls, outcome, others>>

\* lines 157-189, called from stats_reporter (line 207): nothing is printed
\* while stats["requests"] == 0
print_stats ==
    /\ Schedule("stats_reporter")
    /\ stats.requests # 0
    /\ printed' = [requests |-> stats.requests, errors |-> stats.errors,
                   samples |-> Len(stats.response_times),
                   percentiles |-> Percentiles(stats.response_times)]
    /\ UNCHANGED <<stats, heap, pc, frame, ret, clock, calls, outcome, others>>

\* ------------------------------------------------- json.dump and json.load
RECURSIVE SetToSeq(_)
\* the elements of S in some order
SetToSeq(S) ==
    IF S = {} THEN <<>>
    ELSE LET x == CHOOSE y \in S : TRUE IN <<x>> \o SetToSeq(S \ {x})

\* the store with every endpoint dict in place of its identity
StoreValue(st, hp) ==
    [st EXCEPT !.endpoints = [e \in DOMAIN st.endpoints |-> hp[st.endpoints[e]]]]

\* the JSON text of an int
JsonInt(n) == [json |-> "number", text |-> Str(n)]
\* a float written as JavaScript does: null in place of Infinity
JsonFloatNull(x) ==
    IF x = INF THEN [json |-> "null", text |-> "null"] ELSE JsonInt(x)
\* the JSON text of a float: json.dump writes float('inf') as Infinity
JsonFloat(x) ==
    IF x = INF THEN [json |-> "Infinity", text |-> "Infinity"] ELSE JsonInt(x)
\* the JSON text of a str that the model keeps by its length
JsonText(len) == [json |-> "string", text |-> Str(len)]
\* the JSON text of a status_code of errors_detail: an int or a str
JsonValue(v) ==
    IF v.type = "int" THEN [json |-> "number", text |-> v.val]
                      ELSE [json |-> "string", text |-> v.val]

\* the JSON text of an endpoint dict (lines 76-81)
JsonEndpoint(e) ==
    [requests |-> JsonInt(e.requests), errors |-> JsonInt(e.errors),
     total_time |-> JsonFloat(e.total_time),
     times |-> [i \in 1..Len(e.times) |-> JsonFloat(e.times[i])]]

\* the JSON text of an error record (lines 95-100 and 111-116)
JsonError(r) ==
    [timestamp |-> JsonFloat(r.timestamp), endpoint |-> r.endpoint,
     status_code |-> JsonValue(r.status_code), message |-> JsonText(r.message)]

\* json.dump(stats, f), line 385: the members of a dict are written in the
\* order of their insertion
json_dump(st, hp) ==
    LET eps == SortSeq(SetToSeq(DOMAIN st.endpoints),
                       LAMBDA a, b : st.endpoints[a] < st.endpoints[b])
        codes == SetToSeq(DOMAIN st.status_codes)
    IN  [requests |-> JsonInt(st.requests),
         errors |-> JsonInt(st.errors),
         total_time |-> JsonFloat(st.total_time),
         min_time |-> JsonFloat(st.min_time),
         max_time |-> JsonFloat(st.max_time),
         response_times |-> [i \in 1..Len(st.response_times) |->
                                JsonFloat(st.response_times[i])],
         timestamps |-> [i \in 1..Len(st.timestamps) |-> JsonFloat(st.timestamps[i])],
         endpoints |-> [i \in 1..Len(eps) |->
                           [key |-> eps[i],
                            value |-> JsonEndpoint(hp[st.endpoints[eps[i]]])]],
         status_codes |-> [i \in 1..Len(codes) |->
                              [key |-> codes[i],
                               value |-> JsonInt(st.status_codes[codes[i]])]],
         errors_detail |-> [i \in 1..Len(st.errors_detail) |->
                               JsonError(st.errors_detail[i])]]

\* the int that a JSON number stands for
ParseInt(tok) == CHOOSE n \in 0..INF : Str(n) = tok.text
\* the float that a JSON number or the token Infinity stands for
ParseFloat(tok) ==
    IF tok.json = "Infinity" THEN INF
    ELSE IF tok.json = "null" THEN -1    \* None, which is no float
    ELSE ParseInt(tok)
\* the int or str that a JSON number or string stands for
ParseValue(tok) ==
    IF tok.json = "number" THEN [type |-> "int", val |-> tok.text]
                           ELSE [type |-> "str", val |-> tok.text]

ParseEndpoint(o) ==
    [requests |-> ParseInt(o.requests), errors |-> ParseInt(o.errors),
     total_time |-> ParseFloat(o.total_time),
     times |-> [i \in 1..Len(o.times) |-> ParseFloat(o.times[i])]]

ParseError(o) ==
    [timestamp |-> ParseFloat(o.timestamp), endpoint |-> o.endpoint,
     status_code |-> ParseValue(o.status_code), message |-> ParseInt(o.message)]

\* the dict of the members ms, whose values are ints
ParseCounts(ms) ==
    [k \in {ms[i].key : i \in DOMAIN ms} |->
        ParseInt((CHOOSE m \in {ms[i] : i \in DOMAIN ms} : m.key = k).value)]

\* json.load(f), line 336: the store, and its endpoint dicts by identity
json_load(text) ==
    [stats |->
        [requests |-> ParseInt(text.requests),
         errors |-> ParseInt(text.errors),
         total_time |-> ParseFloat(text.total_time),
         min_time |-> ParseFloat(text.min_time),
         max_time |-> ParseFloat(text.max_time),
         response_times |-> [i \in 1..Len(text.response_times) |->
                                ParseFloat(text.response_times[i])],
         timestamps |-> [i \in 1..Len(text.timestamps) |->
                            ParseFloat(text.timestamps[i])],
         endpoints |-> [e \in {text.endpoints[i].key : i \in DOMAIN text.endpoints} |->
                           CHOOSE i \in DOMAIN text.endpoints :
                              text.endpoints[i].key = e],
         status_codes |-> ParseCounts(text.status_codes),
         errors_detail |-> [i \in 1..Len(text.errors_detail) |->
                               ParseError(text.errors_detail[i])]],
     heap |-> [i \in 1..Len(text.endpoints) |-> ParseEndpoint(text.endpoints[i].value)]]

\* -------------------------------------------------------------- user_session
\* Time is counted in seconds: every HTTP call takes at least one second and
\* at most its timeout, everything else takes no time.  A thread that can
\* take a step takes it before time passes (Tick).

\* timeout=10 of session.get and session.post (lines 57 and 59)
HttpTimeout == 10
\* time.sleep(1) of line 155
Backoff == 1

\* the shortest text of TextLens
ShortText == CHOOSE x \in TextLens : \A y \in TextLens : x <= y

\* how long an HTTP call takes
HttpDurations == {1, HttpTimeout}
\* response.json() of /api/problems: not JSON ("invalid"), or an object whose
\* "problems" is the empty list or a list of one problem id
Bodies == {"invalid", "empty", "list"}

\* user_session is in its loop
Alive(t) == session[t].line \notin {"none", "returned"}
\* user_session is inside time.sleep or inside an HTTP call
Waiting(t) == pc[t] = "L54" \/ session[t].line = "L155"
\* user_session can take a step now
SessionEnabled(t) == Alive(t) /\ (Waiting(t) => clock >= session[t].wake)

SetSession(t, r) == session' = [session EXCEPT ![t] = r]

\* lines 121-127: the first statements of user_session
user_session(t) ==
    /\ session[t].line = "L121"
    /\ SetSession(t, [session[t] EXCEPT !.line = "L129",
                                        !.start = clock,
                                        !.problems = "None",
                                        !.end_time = clock + session[t].duration])
    /\ UNCHANGED <<stats, heap, pc, frame, ret, clock, outcome, calls, printed,
                   gil, preempts, report, running, main, file, apps>>

\* line 129 without the test of running
L129_enter_ignoring_running(t) ==
    /\ session[t].line = "L129"
    /\ clock < session[t].end_time
    /\ SetSession(t, [session[t] EXCEPT !.line = "L132",
                                        !.iterations = @ + 1,
                                        !.last_iteration = clock])
    /\ UNCHANGED <<stats, heap, pc, frame, ret, clock, outcome, calls, printed,
                   gil, preempts, report, running, main, file, apps>>

\* line 129 without the comparison with end_time
L129_enter_while_running(t) ==
    /\ session[t].line = "L129"
    /\ running
    /\ SetSession(t, [session[t] EXCEPT !.line = "L132",
                                        !.iterations = @ + 1,
                                        !.last_iteration = clock])
    /\ UNCHANGED <<stats, heap, pc, frame, ret, clock, outcome, calls, printed,
                   gil, preempts, report, running, main, file, apps>>

\* line 129: the loop test holds
L129_enter(t) ==
    /\ session[t].line = "L129"
    /\ clock < session[t].end_time /\ running
    /\ SetSession(t, [session[t] EXCEPT !.line = "L132",
                                        !.iterations = @ + 1,
                                        !.last_iteration = clock])
    /\ UNCHANGED <<stats, heap, pc, frame, ret, clock, outcome, calls, printed,
                   gil, preempts, report, running, main, file, apps>>

\* line 129: the loop test fails and user_session returns
L129_exit(t) ==
    /\ session[t].line = "L129"
    /\ ~(clock < session[t].end_time /\ running)
    /\ SetSession(t, [session[t] EXCEPT !.line = "returned", !.returned_at = clock])
    /\ UNCHANGED <<stats, heap, pc, frame, ret, clock, outcome, calls, printed,
                   gil, preempts, report, running, main, file, apps>>

\* lines 47-59: make_request sends its request, which takes d seconds;
\* user_session goes on at line next when the call has returned
Send(t, endpoint, method, d, next) ==
    /\ At(t, "idle")
    /\ SetFrame(t, [NoFrame EXCEPT !.endpoint = endpoint, !.method = method])
    /\ Goto(t, "L54")
    /\ calls' = [calls EXCEPT !.started = @ + 1]
    /\ SetSession(t, [session[t] EXCEPT
                         !.line = next, !.sent = clock, !.wake = clock + d,
                         !.users_calls = IF endpoint = "/api/users" THEN @ + 1 ELSE @,
                         !.fetches = IF endpoint = "/api/problems" THEN @ + 1 ELSE @])
    /\ UNCHANGED <<stats, heap, ret, clock, outcome, printed, gil, preempts,
                   report, running, main, file, apps>>

\* lines 132-133: problems is None or empty, make_request("/api/problems")
L133_call(t, d) ==
    /\ session[t].line = "L132"
    /\ session[t].problems # "list"
    /\ Send(t, "/api/problems", "GET", d, "L134")

\* line 132: problems is a non-empty list
L132_cached(t) ==
    /\ session[t].line = "L132"
    /\ session[t].problems = "list"
    /\ SetSession(t, [session[t] EXCEPT !.line = "L138"])
    /\ UNCHANGED <<stats, heap, pc, frame, ret, clock, outcome, calls, printed,
                   gil, preempts, report, running, main, file, apps>>

\* lines 63-103 of the call in flight, run without interruption: the HTTP
\* call is answered with status s after session[t].wake - session[t].sent
\* seconds
make_request_returns(t, s) ==
    /\ At(t, "L54")
    /\ Alive(t)
    /\ clock >= session[t].wake
    /\ LET after == RecordResponse(stats, heap, frame[t].endpoint, s,
                                   clock - session[t].sent, clock, ShortText)
       IN  /\ stats' = after.stats
           /\ heap' = after.heap
    /\ ret' = [ret EXCEPT ![t] = [value |-> "response", status_code |-> s]]
    /\ outcome' = [outcome EXCEPT ![t] = "response"]
    /\ calls' = [calls EXCEPT !.responded = @ + 1,
                              !.http_errors = IF s >= 400 THEN @ + 1 ELSE @,
                              !.returned = @ + 1]
    /\ SetFrame(t, NoFrame)
    /\ Goto(t, "idle")
    /\ UNCHANGED <<clock, printed, gil, preempts, others>>

\* lines 105-119 of the call in flight, run without interruption: the HTTP
\* call raises (after the timeout, or earlier when the connection fails)
make_request_fails(t) ==
    /\ At(t, "L54")
    /\ Alive(t)
    /\ clock >= session[t].wake
    /\ LET after == RecordFault(stats, heap, frame[t].endpoint, clock, ShortText)
       IN  /\ stats' = after.stats
           /\ heap' = after.heap
    /\ ret' = [ret EXCEPT ![t] = [value |-> "None", status_code |-> 0]]
    /\ outcome' = [outcome EXCEPT ![t] = "fault"]
    /\ calls' = [calls EXCEPT !.faults = @ + 1, !.returned = @ + 1]
    /\ SetFrame(t, NoFrame)
    /\ Goto(t, "idle")
    /\ UNCHANGED <<clock, printed, gil, preempts, others>>

\* line 134: no response, or a status other than 200
L134_skip(t) ==
    /\ session[t].line = "L134" /\ At(t, "idle")
    /\ ~(ret[t].value = "response" /\ ret[t].status_code = 200)
    /\ SetSession(t, [session[t] EXCEPT !.line = "L138"])
    /\ UNCHANGED <<stats, heap, pc, frame, ret, clock, outcome, calls, printed,
                   gil, preempts, report, running, main, file, apps>>

\* line 135: problems = response.json().get("problems", [])
L135_json(t, body) ==
    /\ session[t].line = "L134" /\ At(t, "idle")
    /\ ret[t].value = "response" /\ ret[t].status_code = 200
    /\ body # "invalid"
    /\ SetSession(t, [session[t] EXCEPT !.line = "L138", !.problems = body])
    /\ UNCHANGED <<stats, heap, pc, frame, ret, clock, outcome, calls, printed,
                   gil, preempts, report, running, main, file, apps>>

\* line 135 outside the try statement: the exception of response.json() ends
\* user_session
L135_json_propagates(t) ==
    /\ session[t].line = "L134" /\ At(t, "idle")
    /\ ret[t].value = "response" /\ ret[t].status_code = 200
    /\ SetSession(t, [session[t] EXCEPT !.line = "returned",
                                        !.exceptions = @ + 1,
                                        !.returned_at = clock])
    /\ UNCHANGED <<stats, heap, pc, frame, ret, clock, outcome, calls, printed,
                   gil, preempts, report, running, main, file, apps>>

\* line 135: response.json() raises, control goes to line 153
L135_json_raises(t) ==
    /\ session[t].line = "L134" /\ At(t, "idle")
    /\ ret[t].value = "response" /\ ret[t].status_code = 200
    /\ SetSession(t, [session[t] EXCEPT !.line = "L153", !.exceptions = @ + 1])
    /\ UNCHANGED <<stats, heap, pc, frame, ret, clock, outcome, calls, printed,
                   gil, preempts, report, running, main, file, apps>>

\* line 138: make_request("/api/users")
L138_call(t, d) ==
    /\ session[t].line = "L138"
    /\ Send(t, "/api/users", "GET", d, "L141")

\* line 141: problems is None or empty
L141_skip(t) ==
    /\ session[t].line = "L141" /\ At(t, "idle")
    /\ session[t].problems # "list"
    /\ SetSession(t, [session[t] EXCEPT !.line = "L146"])
    /\ UNCHANGED <<stats, heap, pc, frame, ret, clock, outcome, calls, printed,
                   gil, preempts, report, running, main, file, apps>>

\* lines 141-143: make_request("/api/problem/{id}", method="POST")
L143_call(t, d) ==
    /\ session[t].line = "L141"
    /\ session[t].problems = "list"
    /\ Send(t, "/api/problem/1", "POST", d, "L146")

\* lines 146-147: random.random() < 0.2, make_request("/health")
L147_call(t, d) ==
    /\ session[t].line = "L146"
    /\ Send(t, "/health", "GET", d, "L150")

\* line 146: random.random() >= 0.2
L146_skip(t) ==
    /\ session[t].line = "L146" /\ At(t, "idle")
    /\ SetSession(t, [session[t] EXCEPT !.line = "L150"])
    /\ UNCHANGED <<stats, heap, pc, frame, ret, clock, outcome, calls, printed,
                   gil, preempts, report, running, main, file, apps>>

\* lines 150-151: time.sleep(random.uniform(0, 0)), think_time being (0, 0)
L151_sleep(t) ==
    /\ session[t].line = "L150" /\ At(t, "idle")
    /\ SetSession(t, [session[t] EXCEPT !.line = "L129"])
    /\ UNCHANGED <<stats, heap, pc, frame, ret, clock, outcome, calls, printed,
                   gil, preempts, report, running, main, file, apps>>

\* lines 153-155: the exception is printed, time.sleep(1) starts
L153_except(t) ==
    /\ session[t].line = "L153"
    /\ SetSession(t, [session[t] EXCEPT !.line = "L155", !.wake = clock + Backoff])
    /\ UNCHANGED <<stats, heap, pc, frame, ret, clock, outcome, calls, printed,
                   gil, preempts, report, running, main, file, apps>>

\* line 155: time.sleep(1) returns, the loop goes on
L155_wakes(t) ==
    /\ session[t].line = "L155"
    /\ clock >= session[t].wake
    /\ SetSession(t, [session[t] EXCEPT !.line = "L129"])
    /\ UNCHANGED <<stats, heap, pc, frame, ret, clock, outcome, calls, printed,
                   gil, preempts, report, running, main, file, apps>>

\* ---------------------------------------------------------------------- main
\* timeout=5 of future.result (line 372)
GraceTimeout == 5

\* the futures of line 355, in the order of their submission
Futures == <<"user0", "user1">>

\* every session submitted has returned
AllReturned == \A t \in Sessions : ~Alive(t)

\* the statements of the try block of lines 352-374
InTry == {"L356", "L366", "L372", "L354"}

\* main can take a step now
MainEnabled ==
    CASE main.line \in {"none", "returned"} -> FALSE
      [] main.line = "L366" -> clock >= main.wake
      [] main.line = "L372" -> ~Alive(Futures[main.future]) \/ clock >= main.wake
      [] main.line \in {"L354", "L354_raising"} -> AllReturned
      [] OTHER -> TRUE

\* the report of lines 267-312 and the graphs of lines 226-264
ReportWritten ==
    [runs |-> report.runs + 1, written |-> TRUE,
     requests |-> stats.requests, errors |-> stats.errors,
     percentiles |-> Percentiles(stats.response_times),
     graphs |-> Graphs, error_entries |-> Len(stats.errors_detail)]

\* lines 331-337 without the assignment of line 336: the report is generated
\* from the store in memory
L336_no_load ==
    /\ main.line = "L331" /\ main.report_only
    /\ file.exists
    /\ main' = [main EXCEPT !.line = "L337"]
    /\ UNCHANGED <<stats, heap, pc, frame, ret, clock, outcome, calls, printed,
                   gil, preempts, report, running, session, file, apps>>

\* lines 331-336: report-only mode, stats.json exists and is loaded
L336_load ==
    /\ main.line = "L331" /\ main.report_only
    /\ file.exists
    /\ stats' = json_load(file.text).stats
    /\ heap' = json_load(file.text).heap
    /\ main' = [main EXCEPT !.line = "L337"]
    /\ UNCHANGED <<pc, frame, ret, clock, outcome, calls, printed, gil, preempts,
                   report, running, session, file, apps>>

\* lines 337 and 388: generate_report()
main_generate_report ==
    /\ main.line \in {"L337", "L388"}
    /\ report' = IF stats.requests = 0
                    THEN [NoReport EXCEPT !.runs = report.runs + 1]
                    ELSE ReportWritten
    /\ main' = [main EXCEPT !.line = "returned"]
    /\ UNCHANGED <<stats, heap, pc, frame, ret, clock, outcome, calls, printed,
                   gil, preempts, running, session, file, apps>>

\* lines 331-340 with the test of line 333 left out: the report is generated
\* from the store in memory
L339_reports_anyway ==
    /\ main.line = "L331" /\ main.report_only
    /\ ~file.exists
    /\ main' = [main EXCEPT !.line = "L337"]
    /\ UNCHANGED <<stats, heap, pc, frame, ret, clock, outcome, calls, printed,
                   gil, preempts, report, running, session, file, apps>>

\* lines 338-340: report-only mode without stats.json
L339_no_stats ==
    /\ main.line = "L331" /\ main.report_only
    /\ ~file.exists
    /\ main' = [main EXCEPT !.line = "returned",
                            !.message = "No previous stats found"]
    /\ UNCHANGED <<stats, heap, pc, frame, ret, clock, outcome, calls, printed,
                   gil, preempts, report, running, session, file, apps>>

\* lines 342-350: the reporter thread is started
L350_start_reporter ==
    /\ main.line = "L331" /\ ~main.report_only
    /\ main' = [main EXCEPT !.line = "L356", !.reporter = TRUE, !.future = 1,
                            !.reporter_line = "L206"]
    /\ UNCHANGED <<stats, heap, pc, frame, ret, clock, outcome, calls, printed,
                   gil, preempts, report, running, session, file, apps>>

\* lines 356-363: executor.submit(user_session, i, host, duration, think_time)
L357_submit ==
    /\ main.line = "L356"
    /\ main.future <= Len(Futures)
    /\ session' = [session EXCEPT ![Futures[main.future]] =
                      [NoSession EXCEPT !.line = "L121", !.duration = main.duration]]
    /\ main' = [main EXCEPT !.future = @ + 1]
    /\ UNCHANGED <<stats, heap, pc, frame, ret, clock, outcome, calls, printed,
                   gil, preempts, report, running, file, apps>>

\* line 366: time.sleep(args.duration) starts
L366_sleep ==
    /\ main.line = "L356"
    /\ main.future > Len(Futures)
    /\ main' = [main EXCEPT !.line = "L366", !.wake = clock + main.duration]
    /\ UNCHANGED <<stats, heap, pc, frame, ret, clock, outcome, calls, printed,
                   gil, preempts, report, running, session, file, apps>>

\* lines 366-367: time.sleep returns, running = False
L367_stop ==
    /\ main.line = "L366"
    /\ clock >= main.wake
    /\ running' = FALSE
    /\ main' = [main EXCEPT !.line = "L372", !.future = 1,
                            !.wake = clock + GraceTimeout]
    /\ UNCHANGED <<stats, heap, pc, frame, ret, clock, outcome, calls, printed,
                   gil, preempts, report, session, file, apps>>

\* main after the future.result of line 372 on future main.future; to says
\* whether that call timed out
NextFuture(to) ==
    main' = [main EXCEPT
                !.timed_out = IF to THEN @ \cup {Futures[main.future]} ELSE @,
                !.future = @ + 1,
                !.wake = clock + GraceTimeout,
                !.line = IF main.future = Len(Futures) THEN "L354" ELSE "L372"]

\* line 372: future.result(timeout=5) returns, the session has returned
L372_result ==
    /\ main.line = "L372"
    /\ ~Alive(Futures[main.future])
    /\ NextFuture(FALSE)
    /\ UNCHANGED <<stats, heap, pc, frame, ret, clock, outcome, calls, printed,
                   gil, preempts, report, running, session, file, apps>>

\* lines 372-374: future.result(timeout=5) raises TimeoutError, which is printed
L373_timeout ==
    /\ main.line = "L372"
    /\ Alive(Futures[main.future])
    /\ clock >= main.wake
    /\ NextFuture(TRUE)
    /\ UNCHANGED <<stats, heap, pc, frame, ret, clock, outcome, calls, printed,
                   gil, preempts, report, running, session, file, apps>>

\* the end of the with block of line 354: ThreadPoolExecutor.__exit__ calls
\* shutdown(wait=True), which joins every worker thread
L354_exit ==
    /\ main.line = "L354"
    /\ AllReturned
    /\ main' = [main EXCEPT !.line = "L381"]
    /\ UNCHANGED <<stats, heap, pc, frame, ret, clock, outcome, calls, printed,
                   gil, preempts, report, running, session, file, apps>>

\* the user presses Ctrl-C while main is inside the try block: the
\* KeyboardInterrupt leaves the with block through __exit__, which joins the
\* worker threads; raised inside that join it leaves __exit__ at once
KeyboardInterrupt ==
    /\ main.line \in InTry \cup {"L354_raising"}
    /\ main' = [main EXCEPT
                   !.line = IF main.line \in {"L354", "L354_raising"}
                               THEN "L377" ELSE "L354_raising",
                   !.interrupts = @ + 1]
    /\ UNCHANGED <<stats, heap, pc, frame, ret, clock, outcome, calls, printed,
                   gil, preempts, report, running, session, file, apps>>

\* __exit__ has joined the worker threads, the KeyboardInterrupt reaches line 376
L354_exit_raising ==
    /\ main.line = "L354_raising"
    /\ AllReturned
    /\ main' = [main EXCEPT !.line = "L377"]
    /\ UNCHANGED <<stats, heap, pc, frame, ret, clock, outcome, calls, printed,
                   gil, preempts, report, running, session, file, apps>>

\* lines 376-378: except KeyboardInterrupt, running = False
L378_stop ==
    /\ main.line = "L377"
    /\ running' = FALSE
    /\ main' = [main EXCEPT !.line = "L381"]
    /\ UNCHANGED <<stats, heap, pc, frame, ret, clock, outcome, calls, printed,
                   gil, preempts, report, session, file, apps>>

\* line 381: print_stats(final=True)
L381_print_stats ==
    /\ main.line = "L381"
    /\ printed' = IF stats.requests = 0 THEN printed
                  ELSE [requests |-> stats.requests, errors |-> stats.errors,
                        samples |-> Len(stats.response_times),
                        percentiles |-> Percentiles(stats.response_times)]
    /\ main' = [main EXCEPT !.line = "L384"]
    /\ UNCHANGED <<stats, heap, pc, frame, ret, clock, outcome, calls,
                   gil, preempts, report, running, session, file, apps>>

\* lines 384-385: json.dump(stats, f); of is the store that was written
L385_dump ==
    /\ main.line = "L384"
    /\ file' = [exists |-> TRUE, text |-> json_dump(stats, heap),
                of |-> StoreValue(stats, heap)]
    /\ main' = [main EXCEPT !.line = "L388"]
    /\ UNCHANGED <<stats, heap, pc, frame, ret, clock, outcome, calls, printed,
                   gil, preempts, report, running, session, apps>>

\* a later run of the program with --report-only: a new process, in which the
\* module starts from its initial state; stats.json is still there
run_report_only ==
    /\ main.line = "returned" /\ ~main.report_only
    /\ AllReturned
    /\ stats' = InitStats
    /\ heap' = <<>>
    /\ running' = TRUE
    /\ report' = NoReport
    /\ session' = [t \in Sessions |-> NoSession]
    /\ main' = [NoMain EXCEPT !.line = "L331", !.report_only = TRUE]
    /\ UNCHANGED <<pc, frame, ret, clock, outcome, calls, printed, gil, preempts, file, apps>>

\* interval=5 of stats_reporter (line 204)
ReportInterval == 5

\* the reporter thread, which ends with the process, can take a step now
ReporterEnabled ==
    /\ main.line # "returned"
    /\ \/ main.reporter_line \in {"L206", "L207"}
       \/ main.reporter_line = "L208" /\ clock >= main.reporter_wake

\* line 206: while running
L206_test ==
    /\ main.line # "returned"
    /\ main.reporter_line = "L206"
    /\ main' = [main EXCEPT !.reporter_line = IF running THEN "L207" ELSE "returned"]
    /\ UNCHANGED <<stats, heap, pc, frame, ret, clock, outcome, calls, printed,
                   gil, preempts, report, running, session, file, apps>>

\* lines 207-208: print_stats(), then time.sleep(interval) starts
L207_print_stats ==
    /\ main.line # "returned"
    /\ main.reporter_line = "L207"
    /\ printed' = IF stats.requests = 0 THEN printed
                  ELSE [requests |-> stats.requests, errors |-> stats.errors,
                        samples |-> Len(stats.response_times),
                        percentiles |-> Percentiles(stats.response_times)]
    /\ main' = [main EXCEPT !.reporter_line = "L208", !.reports = @ + 1,
                            !.reporter_wake = clock + ReportInterval]
    /\ UNCHANGED <<stats, heap, pc, frame, ret, clock, outcome, calls,
                   gil, preempts, report, running, session, file, apps>>

\* line 208: time.sleep(interval) returns
L208_wakes ==
    /\ main.line # "returned"
    /\ main.reporter_line = "L208"
    /\ clock >= main.reporter_wake
    /\ main' = [main EXCEPT !.reporter_line = "L206"]
    /\ UNCHANGED <<stats, heap, pc, frame, ret, clock, outcome, calls, printed,
                   gil, preempts, report, running, session, file, apps>>

\* time passes until the next sleep or HTTP call ends
Tick ==
    /\ ~MainEnabled
    /\ ~ReporterEnabled
    /\ \A t \in Sessions : ~SessionEnabled(t)
    /\ LET wakes == {session[t].wake : t \in {u \in Sessions : Alive(u) /\ Waiting(u)}}
                    \cup (IF main.line \in {"L366", "L372"} THEN {main.wake} ELSE {})
                    \cup (IF main.line # "returned" /\ main.reporter_line = "L208"
                             THEN {main.reporter_wake} ELSE {})
       IN  /\ wakes # {}
           /\ clock' = CHOOSE w \in wakes : \A v \in wakes : w <= v
    /\ UNCHANGED <<stats, heap, pc, frame, ret, outcome, calls, printed, gil, preempts,
                   others>>

\* ------------------------------------------------------------ specifications
\* session threads run make_request concurrently, the reporter reads meanwhile
Next ==
    \/ \E t \in Sessions, site \in CallSites :
          calls.started < MaxCalls /\ make_request(t, site)
    \/ \E t \in Sessions : make_request_step(t)
    \/ print_stats

Spec == Init /\ [][Next]_vars

\* the same calls, one at a time: a call starts only when none is in flight
NextSeq ==
    \/ \E t \in Sessions, site \in CallSites :
          calls.started < MaxSeqCalls /\ Quiescent /\ make_request(t, site)
    \/ \E t \in Sessions : make_request_step(t)
    \/ Quiescent /\ print_stats

SpecSeq == Init /\ [][NextSeq]_vars

\* the shortest and the longest duration a response can take
SampleDurations == {1, MaxDuration}

\* print_stats and generate_report on the store a run has left
InitReport ==
    /\ \E n \in 0..MaxSamples : \E times \in [1..n -> SampleDurations] :
          /\ stats = SampleStore(times).stats
          /\ heap = SampleStore(times).heap
          /\ clock = n
          /\ calls = [started |-> n, responded |-> n, http_errors |-> 0,
                      faults |-> 0, unsupported |-> 0, returned |-> n]
    /\ InitRest
    /\ pc = [t \in Sessions |-> "idle"]
    /\ frame = [t \in Sessions |-> NoFrame]
    /\ ret = [t \in Sessions |-> [value |-> "no call yet", status_code |-> 0]]
    /\ outcome = [t \in Sessions |-> "no call yet"]
    /\ printed = [requests |-> 0, errors |-> 0, samples |-> 0, percentiles |-> <<>>]
    /\ gil = "main"
    /\ preempts = 0

NextReport ==
    \/ print_stats
    \/ report.runs = 0 /\ generate_report

SpecReport == InitReport /\ [][NextReport]_vars

\* calls one at a time, with any method
NextMethod ==
    \/ \E t \in Sessions, site \in AnyCallSites :
          calls.started < MaxSeqCalls /\ Quiescent /\ make_request(t, site)
    \/ \E t \in Sessions : make_request_step(t)
    \/ \E t \in Sessions : unsupported_method(t)

SpecMethod == Init /\ [][NextMethod]_vars

\* args.duration (line 323)
ArgDurations == {1, MaxArgDuration}

\* one step of a user_session call
user_session_step(t) ==
    \/ user_session(t)
    \/ L129_enter(t) \/ L129_exit(t)
    \/ L132_cached(t) \/ \E d \in HttpDurations : L133_call(t, d)
    \/ \E s \in Statuses : make_request_returns(t, s)
    \/ make_request_fails(t)
    \/ L134_skip(t) \/ \E body \in Bodies : L135_json(t, body)
    \/ L135_json_raises(t)
    \/ \E d \in HttpDurations : L138_call(t, d)
    \/ L141_skip(t) \/ \E d \in HttpDurations : L143_call(t, d)
    \/ L146_skip(t) \/ \E d \in HttpDurations : L147_call(t, d)
    \/ L151_sleep(t) \/ L153_except(t) \/ L155_wakes(t)

\* user_session(0, host, duration, (0, 0)) called on its own
InitSession ==
    /\ InitStore
    /\ report = NoReport /\ running = TRUE /\ main = NoMain /\ file = NoFile
    /\ AppsIdle
    /\ \E d \in ArgDurations :
          session = [t \in Sessions |->
                        IF t = Futures[1]
                           THEN [NoSession EXCEPT !.line = "L121", !.duration = d]
                           ELSE NoSession]

NextSession ==
    \/ \E t \in Sessions : user_session_step(t)
    \/ Tick

SpecSession == InitSession /\ [][NextSession]_vars

\* one step of a user_session call against a target service that answers every
\* request with status 200 and has no problems to list
user_session_step_200(t) ==
    \/ user_session(t)
    \/ L129_enter(t) \/ L129_exit(t)
    \/ \E d \in HttpDurations : L133_call(t, d)
    \/ make_request_returns(t, 200)
    \/ L135_json(t, "empty") \/ L135_json_raises(t)
    \/ \E d \in HttpDurations : L138_call(t, d)
    \/ L141_skip(t)
    \/ L146_skip(t) \/ \E d \in HttpDurations : L147_call(t, d)
    \/ L151_sleep(t) \/ L153_except(t) \/ L155_wakes(t)

\* main() with --duration 1 --min-think 0 --max-think 0, with or without
\* --report-only, with or without a stats.json left by an earlier run
InitMain ==
    /\ InitStore
    /\ report = NoReport /\ running = TRUE /\ file = NoFile
    /\ AppsIdle
    /\ session = [t \in Sessions |-> NoSession]
    /\ \E ro \in BOOLEAN :
          main = [NoMain EXCEPT !.line = "L331", !.report_only = ro, !.duration = 1]

NextMain ==
    \/ L336_load \/ main_generate_report \/ L339_no_stats
    \/ L350_start_reporter \/ L357_submit \/ L366_sleep \/ L367_stop
    \/ L372_result \/ L373_timeout \/ L354_exit
    \/ KeyboardInterrupt \/ L354_exit_raising \/ L378_stop
    \/ L381_print_stats \/ L385_dump
    \/ run_report_only
    \/ L206_test \/ L207_print_stats \/ L208_wakes
    \/ \E t \in Sessions : user_session_step_200(t)
    \/ Tick

SpecMain == InitMain /\ [][NextMain]_vars

\* a call of make_request as the store records it
DumpCalls ==
    [endpoint : {"/api/users", "/health"}, fault : BOOLEAN, status : Statuses,
     d : SampleDurations]

RECURSIVE StoreAfter(_)
\* the store after the calls cs of make_request, made one at a time
StoreAfter(cs) ==
    IF cs = <<>>
       THEN [stats |-> InitStats, heap |-> <<>>]
       ELSE LET before == StoreAfter(SubSeq(cs, 1, Len(cs) - 1))
                c == cs[Len(cs)]
            IN  IF c.fault
                   THEN RecordFault(before.stats, before.heap, c.endpoint,
                                    Len(cs) - 1, ShortText)
                   ELSE RecordResponse(before.stats, before.heap, c.endpoint,
                                       c.status, c.d, Len(cs) - 1, ShortText)

\* main at line 381 of a run whose sessions made up to MaxDumpCalls calls
InitPersist ==
    /\ \E n \in 0..MaxDumpCalls : \E cs \in [1..n -> DumpCalls] :
          /\ stats = StoreAfter(cs).stats
          /\ heap = StoreAfter(cs).heap
          /\ clock = n
          /\ calls = [started |-> n, responded |-> 0, http_errors |-> 0,
                      faults |-> 0, unsupported |-> 0, returned |-> n]
    /\ pc = [t \in Sessions |-> "idle"]
    /\ frame = [t \in Sessions |-> NoFrame]
    /\ ret = [t \in Sessions |-> [value |-> "no call yet", status_code |-> 0]]
    /\ outcome = [t \in Sessions |-> "no call yet"]
    /\ printed = [requests |-> 0, errors |-> 0, samples |-> 0, percentiles |-> <<>>]
    /\ gil = "main"
    /\ preempts = 0
    /\ report = NoReport /\ running = FALSE /\ file = NoFile
    /\ AppsIdle
    /\ session = [t \in Sessions |-> NoSession]
    /\ main = [NoMain EXCEPT !.line = "L381", !.duration = 1, !.reporter = TRUE,
                             !.reporter_line = "L208"]

\* the end of a run, and a later run with --report-only
NextPersist ==
    \/ L381_print_stats \/ L385_dump \/ main_generate_report
    \/ run_report_only \/ L336_load

SpecPersist == InitPersist /\ [][NextPersist]_vars

\* 15 calls of make_request("/api/users") with the durations 0.1 .. 1.5 seconds
\* (counted in tenths, the first being shift + 1), those in errs answered 500
ScenarioCalls(shift, errs) ==
    [i \in 1..15 |-> [endpoint |-> "/api/users", fault |-> FALSE,
                      status |-> IF i \in errs THEN 500 ELSE 200,
                      d |-> ((i + shift) % 15) + 1]]

\* print_stats and generate_report on the store a run has left: a store of
\* InitReport, or the store after 15 calls of which 3 were answered 500
InitPercentiles ==
    \/ InitReport
    \/ /\ \E shift \in 0..14 :
          \E errs \in {e \in SUBSET (1..15) : Cardinality(e) = 3} :
             /\ stats = StoreAfter(ScenarioCalls(shift, errs)).stats
             /\ heap = StoreAfter(ScenarioCalls(shift, errs)).heap
       /\ clock = 15
       /\ calls = [started |-> 15, responded |-> 15, http_errors |-> 3,
                   faults |-> 0, unsupported |-> 0, returned |-> 15]
       /\ InitRest
       /\ pc = [t \in Sessions |-> "idle"]
       /\ frame = [t \in Sessions |-> NoFrame]
       /\ ret = [t \in Sessions |-> [value |-> "no call yet", status_code |-> 0]]
       /\ outcome = [t \in Sessions |-> "no call yet"]
       /\ printed = [requests |-> 0, errors |-> 0, samples |-> 0, percentiles |-> <<>>]
       /\ gil = "main"
       /\ preempts = 0

SpecPercentiles == InitPercentiles /\ [][NextReport]_vars

\* ------------------------------------------- logzio-api: commands and api
\* the commands of commands.py that create something
Commands == {"create_sub_account", "create_api_key", "create_metric_account",
             "create_grafana_folder", "create_dashboard"}

\* the string parameters of each command function, --json-file left out
Params(command) ==
    CASE command = "create_sub_account" ->
            {"account_name", "email", "retention_days", "sharing_objects_accounts",
             "is_flexible", "reserved_daily_gb", "maxdaily_gb", "searchable",
             "accessible", "doc_size_setting", "utilization_settings"}
      [] command = "create_api_key" -> {"name", "account_id"}
      [] command = "create_metric_account" -> {"email", "account_name", "plan_uts"}
      [] command = "create_grafana_folder" -> {"title"}
      [] command = "create_dashboard" -> {"dashboard_title"}

\* the options of create_sub_account that its required_fields do not name
SubAccountExtras == {"is_flexible", "reserved_daily_gb", "maxdaily_gb", "searchable",
                     "accessible", "doc_size_setting", "utilization_settings"}

\* required_fields of each command; create_dashboard validates nothing
\* without --json-file
required_fields(command) ==
    CASE command = "create_sub_account" ->
            {"accountName", "email", "retentionDays", "sharingObjectsAccounts"}
      [] command = "create_api_key" -> {"name", "accountId"}
      [] command = "create_metric_account" -> {"email", "accountName", "planUts"}
      [] command = "create_grafana_folder" -> {"title"}
      [] command = "create_dashboard" -> {}

\* the values --authorized-accounts-ids is given here, as characters
AccountIdTexts == {<<>>, <<"7">>, <<"7", ",", "8">>, <<"x">>, <<"7", ",">>}

RECURSIVE split(_)
\* str.split(','): the parts between the commas, empty parts kept
split(text) ==
    IF \A i \in 1..Len(text) : text[i] # ","
    THEN <<text>>
    ELSE LET i == CHOOSE k \in 1..Len(text) :
                      text[k] = "," /\ \A j \in 1..(k - 1) : text[j] # ","
         IN <<SubSeq(text, 1, i - 1)>> \o split(SubSeq(text, i + 1, Len(text)))

Digits == <<"0", "1", "2", "3", "4", "5", "6", "7", "8", "9">>

\* whether int(part) returns: a non-empty run of digits
IsInt(part) ==
    /\ part # <<>>
    /\ \A i \in 1..Len(part) : \E d \in 1..10 : Digits[d] = part[i]

RECURSIVE int(_)
\* int(part), for a part that IsInt
int(part) ==
    IF part = <<>> THEN 0
    ELSE 10 * int(SubSeq(part, 1, Len(part) - 1))
         + (CHOOSE d \in 1..10 : Digits[d] = part[Len(part)]) - 1

\* whether a value of --authorized-accounts-ids is truthy
Truthy(ids) == ids.given /\ ids.text # <<>>

\* whether the list comprehension of create_metric_account raises ValueError
BadAccountIds(ids) ==
    Truthy(ids) /\ \E i \in 1..Len(split(ids.text)) : ~IsInt(split(ids.text)[i])

\* authorized_accounts_ids_list of create_metric_account
authorized_accounts_ids_list(ids) ==
    IF Truthy(ids)
    THEN [i \in 1..Len(split(ids.text)) |-> int(split(ids.text)[i])]
    ELSE <<>>

\* the dict data each command builds from its options when --json-file is absent
Data(command, options, ids) ==
    CASE command = "create_sub_account" ->
            [accountName |-> options["account_name"],
             email |-> options["email"],
             retentionDays |-> options["retention_days"],
             sharingObjectsAccounts |-> options["sharing_objects_accounts"],
             isFlexible |-> options["is_flexible"],
             reservedDailyGB |-> options["reserved_daily_gb"],
             maxDailyGB |-> options["maxdaily_gb"],
             searchable |-> options["searchable"],
             accessible |-> options["accessible"],
             docSizeSetting |-> options["doc_size_setting"],
             utilizationSettings |-> options["utilization_settings"]]
      [] command = "create_api_key" ->
            [name |-> options["name"], accountId |-> options["account_id"]]
      [] command = "create_metric_account" ->
            [email |-> options["email"],
             accountName |-> options["account_name"],
             planUts |-> options["plan_uts"],
             authorizedAccountsIds |-> authorized_accounts_ids_list(ids)]
      [] command = "create_grafana_folder" -> [title |-> options["title"]]
      [] command = "create_dashboard" ->
            [dashboard |-> [title |-> options["dashboard_title"], panels |-> <<>>],
             folderId |-> 0,
             overwrite |-> FALSE]

\* missing_fields of validate_required_fields
missing_fields(data, fields) == {field \in fields : data[field] = "None"}

\* CONFIG["endpoints"][command], as the tests of the commands expect it
ConfigEndpoint(command) ==
    CASE command = "create_sub_account" -> "/account-management/time-based-accounts"
      [] command = "create_api_key" -> "/api-tokens/sub-account"
      [] command = "create_metric_account" -> "/account-management/metrics-accounts"
      [] command = "create_grafana_folder" -> "/grafana/api/folders"
      [] command = "create_dashboard" -> "/grafana/api/dashboards/db"

\* what requests.request can do: answer with a status and a body that is a JSON
\* document or not, or raise one of the exceptions make_api_request catches
Answers == {[status |-> s, is_json |-> j, value |-> IF j THEN v ELSE "html"] :
               s \in {200, 400, 502}, j \in BOOLEAN, v \in {"created"}}

RequestExceptions == {"ConnectionError", "Timeout", "RequestException"}

\* the local variable response of make_api_request before line 18 assigns it
Unbound == [status |-> 0, is_json |-> FALSE, value |-> "unbound"]

\* a command function is entered with its options, --json-file absent
Invoke ==
    /\ cli.line = "none"
    /\ \E command \in Commands : \E given \in SUBSET Params(command) :
       \E has_ids \in BOOLEAN, text \in AccountIdTexts :
          /\ command = "create_sub_account" =>
                (SubAccountExtras \subseteq given \/ SubAccountExtras \cap given = {})
          /\ (command # "create_metric_account" \/ ~has_ids) => text = <<>>
          /\ cli' = [line |-> "data",
                     command |-> command,
                     options |-> [p \in Params(command) |->
                                     IF p \in given THEN p ELSE "None"],
                     ids |-> [given |-> has_ids, text |-> text],
                     posts |-> <<>>,
                     response |-> Unbound,
                     output |-> <<>>,
                     exit_code |-> -1]
    /\ UNCHANGED <<loadgen, bulk, dl>>

\* the list comprehension of create_metric_account raises ValueError
BuildDataRaises ==
    /\ cli.line = "data"
    /\ cli.command = "create_metric_account"
    /\ BadAccountIds(cli.ids)
    /\ cli' = [cli EXCEPT !.line = "exited", !.exit_code = 1]
    /\ UNCHANGED <<loadgen, bulk, dl>>

\* validate_required_fields raises click.BadParameter
ValidateRaises ==
    /\ cli.line = "data"
    /\ ~(cli.command = "create_metric_account" /\ BadAccountIds(cli.ids))
    /\ missing_fields(Data(cli.command, cli.options, cli.ids),
                      required_fields(cli.command)) # {}
    /\ cli' = [cli EXCEPT !.line = "exited", !.exit_code = 2]
    /\ UNCHANGED <<loadgen, bulk, dl>>

\* whether data is built and passes validate_required_fields
DataValid ==
    /\ cli.line = "data"
    /\ ~(cli.command = "create_metric_account" /\ BadAccountIds(cli.ids))
    /\ missing_fields(Data(cli.command, cli.options, cli.ids),
                      required_fields(cli.command)) = {}

\* the request make_api_request sends at line 18
Request == [method |-> "POST",
            endpoint |-> ConfigEndpoint(cli.command),
            data |-> Data(cli.command, cli.options, cli.ids)]

\* api.py line 18: the request is sent and answered
RequestAnswered ==
    /\ DataValid
    /\ \E answer \in Answers :
          cli' = [cli EXCEPT !.line = "L19",
                             !.posts = Append(@, Request),
                             !.response = answer]
    /\ UNCHANGED <<loadgen, bulk, dl>>

\* api.py lines 18, 22-27: the request raises, the handler prints and goes on
RequestRaises ==
    /\ DataValid
    /\ \E e \in RequestExceptions :
          cli' = [cli EXCEPT !.line = "L29",
                             !.posts = Append(@, Request),
                             !.output = Append(@, [kind |-> "error", value |-> e])]
    /\ UNCHANGED <<loadgen, bulk, dl>>

\* api.py lines 19-21: raise_for_status, its HTTPError printed by the handler
RaiseForStatus ==
    /\ cli.line = "L19"
    /\ cli' = [cli EXCEPT !.line = "L29",
                          !.output = IF cli.response.status >= 400
                                     THEN Append(@, [kind |-> "error",
                                                     value |-> "HTTPError"])
                                     ELSE @]
    /\ UNCHANGED <<loadgen, bulk, dl>>

\* api.py line 29 and the print of the command: the decoded body is printed
ReturnJson ==
    /\ cli.line = "L29"
    /\ cli.response # Unbound
    /\ cli.response.is_json
    /\ cli' = [cli EXCEPT !.line = "exited",
                          !.output = Append(@, [kind |-> "json",
                                                value |-> cli.response.value]),
                          !.exit_code = 0]
    /\ UNCHANGED <<loadgen, bulk, dl>>

\* api.py line 29: response is unbound, or its body is not JSON; the exception
\* leaves the command
ReturnJsonRaises ==
    /\ cli.line = "L29"
    /\ cli.response = Unbound \/ ~cli.response.is_json
    /\ cli' = [cli EXCEPT !.line = "exited", !.exit_code = 1]
    /\ UNCHANGED <<loadgen, bulk, dl>>

NextCli ==
    \/ Invoke
    \/ BuildDataRaises
    \/ ValidateRaises
    \/ RequestAnswered
    \/ RequestRaises
    \/ RaiseForStatus
    \/ ReturnJson
    \/ ReturnJsonRaises

SpecCli == Init /\ [][NextCli]_vars

\* ----------------------------------------- backend: efficient_bulk_query
\* The table is seen through the rows that match filter_dict, numbered
\* 1..rows in the order in which the server returns them, the same at every
\* query.

\* whether `if limit` holds: limit is neither None nor 0
HasLimit(b) == b.limit_given /\ b.limit # 0

\* current_batch_size of lines 99-103
current_batch_size(b) ==
    IF HasLimit(b) /\ b.offset + b.batch_size > b.limit
    THEN b.limit - b.offset
    ELSE b.batch_size

\* the ids of rows from + 1 .. from + count that exist
RowsFrom(rows, from, count) ==
    [i \in 1..(IF from >= rows THEN 0
               ELSE IF from + count > rows THEN rows - from ELSE count) |-> from + i]

\* cursor.fetchall() of line 112: the query has OFFSET only when limit is set
\* (lines 82-83, 107-108)
fetchall(b) ==
    RowsFrom(b.rows, IF HasLimit(b) THEN b.offset ELSE 0, current_batch_size(b))

\* efficient_bulk_query is called, lines 65-91; get_db_connection may raise
CallBulkQuery ==
    /\ bulk.line = "none"
    /\ \E rows \in 0..MaxRows, given \in BOOLEAN, limit \in 0..MaxLimit,
          batch_size \in 1..MaxBatch, connected \in BOOLEAN :
          /\ ~given => limit = 0
          /\ bulk' = [line |-> IF connected THEN "L94" ELSE "raised",
                      rows |-> rows,
                      limit_given |-> given,
                      limit |-> limit,
                      batch_size |-> batch_size,
                      results |-> <<>>,
                      processed |-> 0,
                      offset |-> 0,
                      queries |-> 0]
    /\ UNCHANGED <<loadgen, cli, dl>>

\* lines 95-96: the offset has reached the limit
L95_break ==
    /\ bulk.line = "L94"
    /\ HasLimit(bulk) /\ bulk.offset >= bulk.limit
    /\ bulk' = [bulk EXCEPT !.line = "returned"]
    /\ UNCHANGED <<loadgen, cli, dl>>

\* lines 111-116: the query returns no row
L115_break ==
    /\ bulk.line = "L94"
    /\ ~(HasLimit(bulk) /\ bulk.offset >= bulk.limit)
    /\ bulk.queries < MaxQueries
    /\ fetchall(bulk) = <<>>
    /\ bulk' = [bulk EXCEPT !.line = "returned", !.queries = @ + 1]
    /\ UNCHANGED <<loadgen, cli, dl>>

\* lines 111-125: the query returns a batch, which is added to results
L119_extend ==
    /\ bulk.line = "L94"
    /\ ~(HasLimit(bulk) /\ bulk.offset >= bulk.limit)
    /\ bulk.queries < MaxQueries
    /\ fetchall(bulk) # <<>>
    /\ bulk' = [bulk EXCEPT
                  !.queries = @ + 1,
                  !.results = @ \o fetchall(bulk),
                  !.processed = @ + Len(fetchall(bulk)),
                  !.offset = @ + bulk.batch_size,
                  !.line = IF HasLimit(bulk)
                              /\ bulk.processed + Len(fetchall(bulk)) >= bulk.limit
                           THEN "returned" ELSE "L94"]
    /\ UNCHANGED <<loadgen, cli, dl>>

\* line 111: cursor.execute raises, lines 129-131 close and the error leaves
L111_raises ==
    /\ bulk.line = "L94"
    /\ ~(HasLimit(bulk) /\ bulk.offset >= bulk.limit)
    /\ bulk.queries < MaxQueries
    /\ bulk' = [bulk EXCEPT !.line = "raised", !.queries = @ + 1]
    /\ UNCHANGED <<loadgen, cli, dl>>

NextBulk ==
    \/ CallBulkQuery
    \/ L95_break
    \/ L115_break
    \/ L119_extend
    \/ L111_raises

SpecBulk == Init /\ [][NextBulk]_vars

\* ------------------------------------------- backend: simulate_deadlock
\* Time is dl.now, in seconds. A step of a thread that can run takes no time;
\* a sleep, a join and the wait for a row lock take time.

\* deadlock_transaction_1 and deadlock_transaction_2
Transactions == {"t1", "t2"}

\* the thread whose event a thread waits for
Other(t) == IF t = "t1" THEN "t2" ELSE "t1"

\* the table of the first UPDATE of a transaction (lines 211, 254)
FirstTable(t) == IF t = "t1" THEN "users" ELSE "products"

\* the table of its second UPDATE (lines 224, 264)
SecondTable(t) == IF t = "t1" THEN "products" ELSE "users"

\* where a thread begins: transaction 2 waits for the other before connecting
FirstLine(t) == IF t = "t1" THEN "connect" ELSE "wait"

\* what follows wait_for_other.wait() (lines 218-220, 244-246)
AfterWait(t) == IF t = "t1" THEN "sleep" ELSE "connect"

\* what follows signal_ready.set() (lines 215-218, 258-260)
AfterSet(t) == IF t = "t1" THEN "wait" ELSE "sleep"

\* a thread that has not been started
NoThread == [line |-> "unstarted", wake |-> 0, deadlocked |-> FALSE]

\* dl with thread t changed
SetThread(t, th) == [dl EXCEPT !.thread[t] = th]

\* the row locks a finished transaction gives back
Released(t) == [table \in {"users", "products"} |->
                   IF dl.locks[table] = t THEN "free" ELSE dl.locks[table]]

\* simulate_deadlock is called, lines 283-290
CallSimulateDeadlock ==
    /\ dl.line = "none"
    /\ dl' = [dl EXCEPT !.line = "L293"]
    /\ UNCHANGED <<loadgen, cli, bulk>>

\* lines 293, 294: t1.start(), t2.start()
StartThread(t) ==
    /\ dl.line = (IF t = "t1" THEN "L293" ELSE "L294")
    /\ dl' = [dl EXCEPT !.line = (IF t = "t1" THEN "L294" ELSE "L297"),
                        !.thread[t] = [NoThread EXCEPT !.line = FirstLine(t)]]
    /\ UNCHANGED <<loadgen, cli, bulk>>

\* lines 203, 246: get_db_connection() returns, or raises out of the thread
Connect(t) ==
    /\ dl.thread[t].line = "connect"
    /\ \E connected \in BOOLEAN :
          dl' = SetThread(t, [dl.thread[t] EXCEPT
                                !.line = IF connected THEN "update1" ELSE "done"])
    /\ UNCHANGED <<loadgen, cli, bulk>>

\* lines 211, 254: the first UPDATE locks its row
FirstUpdate(t) ==
    /\ dl.thread[t].line = "update1"
    /\ dl.locks[FirstTable(t)] = "free"
    /\ dl' = [dl EXCEPT !.thread[t].line = "set", !.locks[FirstTable(t)] = t]
    /\ UNCHANGED <<loadgen, cli, bulk>>

\* lines 211/254, 224/264 and the except clause: an UPDATE raises Error
UpdateRaises(t) ==
    /\ dl.thread[t].line \in {"update1", "update2"}
    /\ dl' = [dl EXCEPT !.thread[t].line = "finally",
                        !.thread[t].deadlocked = TRUE]
    /\ UNCHANGED <<loadgen, cli, bulk>>

\* lines 215, 258: signal_ready.set()
SignalReady(t) ==
    /\ dl.thread[t].line = "set"
    /\ dl' = [dl EXCEPT !.thread[t].line = AfterSet(t),
                        !.thread[t].wake = IF AfterSet(t) = "sleep"
                                           THEN dl.now + SetupDelay ELSE @,
                        !.ready[t] = TRUE]
    /\ UNCHANGED <<loadgen, cli, bulk>>

\* lines 218, 244: wait_for_other.wait() returns once the event is set
WaitForOther(t) ==
    /\ dl.thread[t].line = "wait"
    /\ dl.ready[Other(t)]
    /\ dl' = [dl EXCEPT !.thread[t].line = AfterWait(t),
                        !.thread[t].wake = IF AfterWait(t) = "sleep"
                                           THEN dl.now + SetupDelay ELSE @]
    /\ UNCHANGED <<loadgen, cli, bulk>>

\* lines 220, 260: time.sleep(1) is over
SleepOver(t) ==
    /\ dl.thread[t].line = "sleep"
    /\ dl.now >= dl.thread[t].wake
    /\ dl' = [dl EXCEPT !.thread[t].line = "update2"]
    /\ UNCHANGED <<loadgen, cli, bulk>>

\* lines 224-229, 264-269: the second UPDATE gets its row lock, commit
SecondUpdate(t) ==
    /\ dl.thread[t].line = "update2"
    /\ dl.locks[SecondTable(t)] = "free"
    /\ dl' = [dl EXCEPT !.thread[t].line = "finally", !.locks[SecondTable(t)] = t]
    /\ UNCHANGED <<loadgen, cli, bulk>>

\* lines 233-239, 273-279: rollback, close; the transaction's locks are freed
Finally(t) ==
    /\ dl.thread[t].line = "finally"
    /\ dl' = [dl EXCEPT !.thread[t].line = "done", !.locks = Released(t)]
    /\ UNCHANGED <<loadgen, cli, bulk>>

\* the thread that main joins at lines 297, 298
Joined == IF dl.line \in {"L297", "join1"} THEN "t1" ELSE "t2"

\* lines 297, 298: t.join(timeout=10) begins
JoinBegins ==
    /\ dl.line \in {"L297", "L298"}
    /\ dl' = [dl EXCEPT !.line = (IF dl.line = "L297" THEN "join1" ELSE "join2"),
                        !.join_start = dl.now]
    /\ UNCHANGED <<loadgen, cli, bulk>>

\* lines 297-304: join returns when the thread has ended or the timeout is over
JoinReturns ==
    /\ dl.line \in {"join1", "join2"}
    /\ dl.thread[Joined].line = "done" \/ dl.now >= dl.join_start + JoinTimeout
    /\ dl' = [dl EXCEPT !.line = (IF dl.line = "join1" THEN "L298" ELSE "returned"),
                        !.waited[Joined] = dl.now - dl.join_start]
    /\ UNCHANGED <<loadgen, cli, bulk>>

\* whether some thread can take a step now without time passing
DeadlockReady ==
    \/ dl.line \in {"L293", "L294", "L297", "L298"}
    \/ /\ dl.line \in {"join1", "join2"}
       /\ dl.thread[Joined].line = "done" \/ dl.now >= dl.join_start + JoinTimeout
    \/ \E t \in Transactions :
          \/ dl.thread[t].line \in {"connect", "update1", "set", "finally"}
          \/ dl.thread[t].line = "wait" /\ dl.ready[Other(t)]
          \/ dl.thread[t].line = "sleep" /\ dl.now >= dl.thread[t].wake
          \/ dl.thread[t].line = "update2" /\ dl.locks[SecondTable(t)] = "free"

\* the times at which a sleep or a join ends
DeadlockWakes ==
    {dl.thread[t].wake : t \in {u \in Transactions : dl.thread[u].line = "sleep"}}
    \cup (IF dl.line \in {"join1", "join2"} THEN {dl.join_start + JoinTimeout} ELSE {})

\* time passes until the next sleep or join ends
DeadlockTick ==
    /\ dl.line # "none"
    /\ ~DeadlockReady
    /\ DeadlockWakes # {}
    /\ dl' = [dl EXCEPT !.now = CHOOSE w \in DeadlockWakes :
                                    \A v \in DeadlockWakes : w <= v]
    /\ UNCHANGED <<loadgen, cli, bulk>>

NextDeadlock ==
    \/ CallSimulateDeadlock
    \/ \E t \in Transactions : StartThread(t)
    \/ \E t \in Transactions : Connect(t)
    \/ \E t \in Transactions : FirstUpdate(t)
    \/ \E t \in Transactions : UpdateRaises(t)
    \/ \E t \in Transactions : SignalReady(t)
    \/ \E t \in Transactions : WaitForOther(t)
    \/ \E t \in Transactions : SleepOver(t)
    \/ \E t \in Transactions : SecondUpdate(t)
    \/ \E t \in Transactions : Finally(t)
    \/ JoinBegins
    \/ JoinReturns
    \/ DeadlockTick

SpecDeadlock == Init /\ [][NextDeadlock]_vars

\* ------------------------------------------------------------------ claims
RECURSIVE SumFn(_, _)
\* the sum of f[x] over x in S
SumFn(f, S) ==
    IF S = {} THEN 0
    ELSE LET x == CHOOSE y \in S : TRUE IN f[x] + SumFn(f, S \ {x})

\* stats["endpoints"][e] as a reader of the store finds it
EndpointStats(e) == heap[stats.endpoints[e]]

EndpointRequests == [e \in DOMAIN stats.endpoints |-> EndpointStats(e).requests]
EndpointErrors == [e \in DOMAIN stats.endpoints |-> EndpointStats(e).errors]

\* stats["status_codes"].get(k, 0)
StatusCount(k) == IF k \in DOMAIN stats.status_codes THEN stats.status_codes[k] ELSE 0

ExceptionRecords ==
    {i \in DOMAIN stats.errors_detail :
        stats.errors_detail[i].status_code = PyStr("Exception")}

\* C1: once K concurrent make_request calls that all received a response have
\* returned, stats["requests"] has grown by exactly K: no increment is lost.
C1_NoLostIncrement ==
    (Quiescent /\ calls.faults = 0) => stats.requests = calls.responded

\* C2: a concurrent reader (print_stats of stats_reporter) never sees a request
\* partly applied: the requests it prints match the response times it finds.
C2_ReaderSeesWholeUpdates ==
    printed.requests = printed.samples

\* C3: with no make_request in flight, 0 <= stats["errors"] <= stats["requests"],
\* for every sequence of outcomes, transport faults included.
C3_ErrorsWithinRequests ==
    Quiescent => (0 <= stats.errors /\ stats.errors <= stats.requests)

\* C4: every make_request call, whatever its outcome, increments
\* stats["requests"] by one, appends one response time and one timestamp and
\* increments one status_codes counter.
C4_EveryCallRecorded ==
    Quiescent =>
        /\ stats.requests = calls.returned
        /\ Len(stats.response_times) = calls.returned
        /\ Len(stats.timestamps) = calls.returned
        /\ SumFn(stats.status_codes, DOMAIN stats.status_codes) = calls.returned

\* C5: after any sequence of make_request calls made one at a time,
\* stats["requests"] == len(response_times) == len(timestamps).
C5_RequestsMatchSamples ==
    Quiescent =>
        /\ stats.requests = Len(stats.response_times)
        /\ stats.requests = Len(stats.timestamps)

\* C5 witness: two calls have returned, one with a response and one with a fault
C5_Witness ==
    /\ Quiescent
    /\ calls.returned = 2
    /\ calls.responded = 1
    /\ calls.faults = 1
    /\ stats.requests = 1

\* C6: with no make_request in flight, stats["errors"] equals the sum of the
\* endpoints' errors counters and equals the status_codes counts of the codes
\* >= 400 plus status_codes["Exception"].
C6_ErrorsMatchBreakdowns ==
    Quiescent =>
        /\ stats.errors = SumFn(EndpointErrors, DOMAIN stats.endpoints)
        /\ stats.errors =
              SumFn([c \in {x \in Statuses : x >= 400} |-> StatusCount(Str(c))],
                    {x \in Statuses : x >= 400})
              + StatusCount("Exception")

\* C7: with no make_request in flight, also after concurrent calls,
\* stats["requests"] equals the sum of the endpoints' requests counters.
C7_RequestsMatchEndpoints ==
    Quiescent => stats.requests = SumFn(EndpointRequests, DOMAIN stats.endpoints)

\* C8: after any sequence of make_request calls made one at a time,
\* stats["errors"] is the number of responses with status >= 400 plus the
\* number of transport faults.
C8_ErrorsCountFailures ==
    Quiescent => stats.errors = calls.http_errors + calls.faults

\* C8 witness: a response with status >= 400 and a transport fault were recorded
C8_Witness ==
    /\ Quiescent
    /\ calls.http_errors = 1
    /\ calls.faults = 1
    /\ stats.errors = 2

\* C9: whenever stats["requests"] > 0 and no make_request is in flight, after
\* sequential or concurrent calls, min_time is the smallest and max_time the
\* largest element of response_times.
C9_MinMaxBracket ==
    (Quiescent /\ stats.requests > 0) =>
        LET times == {stats.response_times[i] : i \in DOMAIN stats.response_times}
        IN  /\ \A x \in times : stats.min_time <= x /\ x <= stats.max_time
            /\ stats.min_time \in times
            /\ stats.max_time \in times

\* C10: make_request never raises to its caller: a transport fault is caught,
\* recorded as one error record with status "Exception", and None is returned.
C10_FaultIsCaught ==
    /\ \A t \in Sessions : ret[t].value # "raised"
    /\ \A t \in Sessions :
          (pc[t] = "idle" /\ outcome[t] = "fault") => ret[t].value = "None"
    /\ Quiescent => Cardinality(ExceptionRecords) = calls.faults

\* C10 witness: a call that met a transport fault has returned None
C10_Witness ==
    /\ \E t \in Sessions :
          pc[t] = "idle" /\ outcome[t] = "fault" /\ ret[t].value = "None"
    /\ Cardinality(ExceptionRecords) >= 1

\* C11: a make_request call with a method other than GET or POST fails fast:
\* the fault reaches the caller, no HTTP request is issued and the call is not
\* recorded in the store as a request error.
C11_UnsupportedFailsFast ==
    /\ \A t \in Sessions :
          (pc[t] = "idle" /\ outcome[t] = "unsupported") => ret[t].value = "raised"
    /\ clock = calls.responded + calls.faults
    /\ Quiescent =>
          /\ stats.errors = calls.http_errors + calls.faults
          /\ Len(stats.errors_detail) = calls.http_errors + calls.faults

\* C12: every record of stats["errors_detail"], for a response with status
\* >= 400 and for a transport fault alike, has a message of at most 200
\* characters.
C12_MessagesTruncated ==
    \A i \in DOMAIN stats.errors_detail :
        stats.errors_detail[i].message <= MessageLimit

\* p50 <= p90 <= p99 of a percentile section
Ordered(p) == p[1] <= p[2] /\ p[2] <= p[3]

\* C13: print_stats and generate_report emit the percentile section if and
\* only if the store holds more than 10 response times, and then
\* p50 <= p90 <= p99.
C13_PercentileSection ==
    /\ printed.requests > 0 =>
          /\ (printed.percentiles # <<>>) <=> (Len(stats.response_times) > 10)
          /\ printed.percentiles # <<>> => Ordered(printed.percentiles)
    /\ report.runs > 0 =>
          /\ (report.percentiles # <<>>) <=> (Len(stats.response_times) > 10)
          /\ report.percentiles # <<>> => Ordered(report.percentiles)

\* C13 witness: both have emitted the percentiles of 11 unsorted response times
C13_Witness ==
    /\ Len(stats.response_times) = 11
    /\ stats.response_times[1] > stats.response_times[11]
    /\ printed.percentiles # <<>>
    /\ report.percentiles # <<>>
    /\ report.percentiles[1] < report.percentiles[3]

LastSeen(t) == IF session[t].line = "returned" THEN session[t].returned_at ELSE clock

\* C15 as stated: a user_session with think_time (0, 0) and duration 1 returns
\* no later than 1 second plus one HTTP timeout after its start, and starts no
\* loop iteration at or after its deadline.
C15_ReturnsWithinOneTimeout ==
    \A t \in Sessions :
        (session[t].line \notin {"none", "L121"} /\ session[t].duration = 1) =>
            /\ LastSeen(t) <= session[t].start + 1 + HttpTimeout
            /\ session[t].iterations > 0 =>
                  session[t].last_iteration < session[t].end_time

\* C15 amended: a user_session with think_time (0, 0) returns no later than its
\* duration plus four HTTP timeouts after its start (one iteration makes up to
\* four calls of make_request), and starts no loop iteration at or after its
\* deadline.
C15_ReturnsWithinFourTimeouts ==
    \A t \in Sessions :
        session[t].line \notin {"none", "L121"} =>
            /\ LastSeen(t) <= session[t].start + session[t].duration + 4 * HttpTimeout
            /\ session[t].iterations > 0 =>
                  session[t].last_iteration < session[t].end_time

\* C15 witness: a session of duration 1 has returned four HTTP timeouts after
\* its start
C15_Witness ==
    \E t \in Sessions :
        /\ session[t].line = "returned"
        /\ session[t].duration = 1
        /\ session[t].returned_at = session[t].start + 4 * HttpTimeout

\* C16: after main has cleared the running flag it waits at most 5 seconds for
\* each session, then proceeds to the final statistics without waiting for a
\* session that is still running.
C16_WaitsAtMostGrace ==
    (main.line \in {"L372", "L354"}) =>
        clock <= main.duration + Len(Futures) * GraceTimeout

\* C17: the final read of the store (final print_stats, json.dump and
\* generate_report) starts only after the stop has been signalled and every
\* user_session has returned.
C17_FinalReadAfterJoin ==
    (main.line \in {"L381", "L384", "L388"}) => (~running /\ AllReturned)

\* C18: an exception raised inside a loop iteration of user_session is caught
\* in that iteration and followed by the 1-second backoff, after which the loop
\* goes on; a session returns only from the loop test, at its deadline or with
\* the running flag cleared.
C18_FailedIterationContinues ==
    [][\A t \in Sessions :
          /\ (session'[t].exceptions > session[t].exceptions) =>
                session'[t].line = "L153"
          /\ (session[t].line = "L153" /\ session'[t].line # "L153") =>
                /\ session'[t].line = "L155"
                /\ session'[t].wake = clock + Backoff
          /\ (session[t].line = "L155" /\ session'[t].line # "L155") =>
                /\ session'[t].line = "L129"
                /\ clock >= session[t].wake
          /\ (Alive(t) /\ session'[t].line = "returned") =>
                /\ session[t].line = "L129"
                /\ clock >= session[t].end_time \/ ~running]_vars

\* C18 witness: a session has started another iteration after a failed one and
\* its backoff
C18_Witness ==
    \E t \in Sessions :
        /\ session[t].exceptions > 0
        /\ session[t].iterations > 1
        /\ session[t].line = "L132"
        /\ session[t].last_iteration >= session[t].start + 1 + Backoff

C20_ReportOnlyWithoutFile ==
    (main.report_only /\ main.line = "returned" /\ ~file.exists) =>
        /\ main.message = "No previous stats found"
        /\ report = NoReport
        /\ stats = InitStats /\ heap = <<>>
        /\ ~main.reporter
        /\ \A t \in Sessions : session[t] = NoSession

\* C20 witness: main has returned from a report-only run without stats.json
C20_Witness ==
    /\ main.report_only /\ main.line = "returned" /\ ~file.exists
    /\ main.message = "No previous stats found"


\* C21: generate_report and print_stats never modify any field of the store:
\* the store and the endpoint dicts after the call equal those before it.
C21_ReadersKeepStore ==
    [][stats' = stats /\ heap' = heap]_vars

\* C21 witness: both have run on a store whose response times are not sorted
C21_Witness ==
    /\ printed.requests > 0
    /\ report.written
    /\ Len(stats.response_times) > 1
    /\ stats.response_times[1] > stats.response_times[2]


\* v is the element of index k (counted from 0) of times sorted ascending
IsRanked(v, times, k) ==
    /\ Cardinality({i \in DOMAIN times : times[i] < v}) <= k
    /\ Cardinality({i \in DOMAIN times : times[i] <= v}) > k
    /\ \E i \in DOMAIN times : times[i] = v

\* p is the percentile section of the response times: the elements of index
\* floor(n/2), floor(0.9*n) and floor(0.99*n), all within 0..n-1
RankedPercentiles(p, times) ==
    LET n == Len(times)
    IN  /\ p # <<>>
        /\ (n \div 2) < n /\ ((9 * n) \div 10) < n /\ ((99 * n) \div 100) < n
        /\ IsRanked(p[1], times, n \div 2)
        /\ IsRanked(p[2], times, (9 * n) \div 10)
        /\ IsRanked(p[3], times, (99 * n) \div 100)

\* the store holds 15 outcomes of which 3 have status 500
FifteenWithThreeErrors ==
    /\ stats.requests = 15
    /\ "500" \in DOMAIN stats.status_codes
    /\ stats.status_codes["500"] = 3

\* C26: for every store with n > 10 response times print_stats and
\* generate_report take p50, p90 and p99 at the indexes floor(n/2),
\* floor(0.9*n) and floor(0.99*n) of the times sorted ascending, all within
\* 0..n-1; for 15 outcomes of which 3 have status 500, stats["errors"] is 3 and
\* p50 is the 8th smallest duration.
C26_PercentileRanks ==
    /\ (printed.requests > 0 /\ Len(stats.response_times) > 10) =>
          RankedPercentiles(printed.percentiles, stats.response_times)
    /\ (report.written /\ Len(stats.response_times) > 10) =>
          RankedPercentiles(report.percentiles, stats.response_times)
    /\ FifteenWithThreeErrors => stats.errors = 3
    /\ (FifteenWithThreeErrors /\ printed.requests > 0 /\ report.written) =>
          /\ IsRanked(printed.percentiles[1], stats.response_times, 7)
          /\ IsRanked(report.percentiles[1], stats.response_times, 7)

\* C26 witness: both have reported on 15 outcomes of which 3 have status 500,
\* recorded out of order, and p50 is the duration 0.8 seconds
C26_Witness ==
    /\ FifteenWithThreeErrors
    /\ stats.response_times[1] > stats.response_times[15]
    /\ printed.requests > 0 /\ report.written
    /\ printed.percentiles[1] = 8 /\ report.percentiles[1] = 8


\* C27: in report-only mode with an existing stats.json main starts no reporter
\* thread and no session, issues no HTTP request, replaces the store in memory
\* by the content of the file, runs generate_report exactly once and does not
\* rewrite stats.json.
C27_ReportOnlyWithFile ==
    [][(main.report_only /\ file.exists) =>
          /\ file' = file
          /\ session' = session /\ \A t \in Sessions : session[t] = NoSession
          /\ calls' = calls /\ pc' = pc
          /\ ~main'.reporter
          /\ (main.line = "L331" /\ main'.line # "L331") =>
                /\ StoreValue(stats', heap') = file.of
                /\ report'.runs = 0
          /\ (main.line # "L331") => (stats' = stats /\ heap' = heap)
          /\ (main.line # "returned" /\ main'.line = "returned") =>
                report'.runs = 1]_vars

\* C27 witness: a report-only run has returned after writing the report of
\* the store it read from stats.json
C27_Witness ==
    /\ main.report_only /\ main.line = "returned" /\ file.exists
    /\ stats.requests > 0 /\ stats.errors > 0
    /\ report.runs = 1 /\ report.written
    /\ report.requests = file.of.requests


\* C23: every loop iteration of user_session calls make_request on /api/users,
\* whatever the outcome of the catalog fetch made earlier in that iteration: a
\* session back at its loop test has called it once per iteration.
C23_UsersEveryIteration ==
    \A t \in Sessions :
        session[t].line \in {"L129", "returned"} =>
            session[t].users_calls = session[t].iterations

\* C24: a session calls /api/problems only while its catalog has not been
\* fetched: after a fetch answered 200 and decoded, whatever list it returned,
\* the session never calls /api/problems again.
C24_CatalogFetchedOnce ==
    [][\A t \in Sessions :
          session[t].problems # "None" =>
              session'[t].fetches = session[t].fetches]_vars


\* C25: once the running flag has been cleared every user_session starts no
\* further iteration and stats_reporter leaves its loop at its next check; a
\* session that has left its loop makes no further call and no change to the
\* store; within a run of the program the flag only changes from set to
\* cleared, and only main changes it.
C25_StopIsObserved ==
    [][~(main.line = "returned" /\ main'.line = "L331") =>
          /\ (running' # running) =>
                /\ running /\ ~running'
                /\ main.line \in {"L366", "L377"} /\ main'.line # main.line
          /\ \A t \in Sessions :
                /\ ~running => session'[t].iterations = session[t].iterations
                /\ session[t].line = "returned" =>
                      (session'[t] = session[t] /\ pc'[t] = "idle")
          /\ (~running /\ main.reporter_line = "L206") =>
                main'.reporter_line \in {"L206", "returned"}
          /\ (main.reporter_line = "returned") =>
                (main'.reporter_line = "returned" /\ main'.reports = main.reports)
          /\ (stats' # stats /\ ~main.report_only) =>
                \E t \in Sessions : Alive(t) /\ pc[t] = "L54" /\ pc'[t] = "idle"]_vars

\* C25 witness: the flag is cleared, every session has returned after a call
\* that was in flight when the flag was cleared, and the reporter has left its
\* loop after a report
C25_Witness ==
    /\ ~running
    /\ \A t \in Sessions :
          session[t].line = "returned" /\ session[t].returned_at > main.duration
    /\ main.reporter_line = "returned"
    /\ main.reports > 0

\* C28: when the user interrupts a run while main waits for the test duration
\* or for the session results, the running flag is cleared before main waits
\* for the sessions to finish.
C28_InterruptStopsSessions ==
    (main.line = "L354_raising") => ~running


\* whether the invocation gave every option its command requires
RequiredGiven ==
    /\ cli.line # "none"
    /\ missing_fields(Data(cli.command, cli.options, [given |-> FALSE, text |-> <<>>]),
                      required_fields(cli.command)) = {}

\* C22: a create command invoked with its required options and no --json-file
\* has, when it exits, sent exactly one POST to its configured endpoint with
\* the data built from its options, printed the JSON body of the response and
\* exited with code 0
C22_CommandPostsAndPrints ==
    (RequiredGiven /\ cli.line = "exited") =>
        /\ cli.posts = <<[method |-> "POST",
                          endpoint |-> ConfigEndpoint(cli.command),
                          data |-> Data(cli.command, cli.options, cli.ids)]>>
        /\ cli.response.is_json
        /\ cli.output # <<>>
        /\ cli.output[Len(cli.output)] = [kind |-> "json", value |-> cli.response.value]
        /\ cli.exit_code = 0


\* C29: efficient_bulk_query terminates (every query but the last returns rows
\* not returned before, so a call makes at most one query per matching row and
\* one more), returns no row twice, and returns at most limit rows when a
\* limit is given
C29_BulkQueryTerminates ==
    /\ bulk.queries <= bulk.rows + 1
    /\ \A i, j \in 1..Len(bulk.results) : i # j => bulk.results[i] # bulk.results[j]
    /\ bulk.limit_given => Len(bulk.results) <= bulk.limit


\* whether transaction t waits for an event that will never be set: the other
\* thread has ended, or is ending, without having set it
WaitsForever(t) ==
    /\ dl.thread[t].line = "wait"
    /\ ~dl.ready[Other(t)]
    /\ dl.thread[Other(t)].line \in {"finally", "done"}

\* C30: in simulate_deadlock no transaction thread is ever left waiting for
\* an event that cannot be set any more, whatever its database operations
\* did, so both threads terminate; and simulate_deadlock has returned after
\* waiting at most 10 seconds for each thread
C30_DeadlockThreadsTerminate ==
    /\ \A t \in Transactions : ~WaitsForever(t)
    /\ \A t \in Transactions : dl.waited[t] <= JoinTimeout

====
